---------------------------- MODULE Spec2Model ----------------------------
(***************************************************************************)
(* A model of the ComfyUI Model Linker core: the fuzzy filename matcher    *)
(* (core/matcher.py), the workflow analyzer (core/workflow_analyzer.py)    *)
(* and the directory scanner (core/scanner.py).                            *)
(*                                                                         *)
(* Strings are sequences of one-character strings.  Floating point scores  *)
(* are exact rationals [n |-> numerator, d |-> denominator] in lowest      *)
(* terms, so two scores are equal exactly when their records are equal.    *)
(* Paths follow posixpath ("/" is the only separator).                     *)
(***************************************************************************)
EXTENDS Integers, Sequences, FiniteSets, TLC

VARIABLES
    pc,                 \* position of the current call
    filename,           \* normalize_filename: the argument
    normalized,         \* normalize_filename: the latest return value
    passes,             \* normalize_filename: how often it was applied
    str1, str2,         \* calculate_similarity[_with_normalization]: arguments
    char_sim,           \* calculate_similarity(str1, str2)
    prev_char_sim,      \* calculate_similarity before the arguments were swapped
    final_sim,          \* calculate_similarity_with_normalization(str1, str2)
    tokens1, tokens2,   \* calculate_token_similarity: arguments
    token_sim,          \* calculate_token_similarity(tokens1, tokens2)
    prev_token_sim,     \* the score before a shared token was appended
    target_model,       \* find_matches: arguments
    candidate_models,
    threshold,
    max_results,
    matches,            \* find_matches: the returned list
    raised,             \* find_matches: the exception that left the call, if any
    workflow_json,      \* detect_workflow_format, analyze_workflow_models: the argument
    workflow_format,    \* detect_workflow_format: the return value
    folder_paths,       \* workflow_analyzer.folder_paths: "None" or "module"
    importable,         \* whether "import folder_paths" succeeds
    registry_files,     \* the (category, filename) pairs folder_paths finds on disk
    all_model_refs,     \* analyze_workflow_models: the list all_model_refs
    analyze_raised,     \* analyze_workflow_models: the exception that left the call
    workflow_models,    \* identify_missing_models: the argument
    missing,            \* identify_missing_models: the return value
    callers,            \* the concurrent analyze_workflow_models calls
    directories,        \* scanner: what get_model_directories returns
    additional_dirs,    \* scanner: what get_additional_directories returns
    all_models,         \* scan_all_directories: the list all_models
    scan_raised,        \* scanner: the exception that left the call
    response,           \* the refresh_cache handler's response
    scanned_models,     \* merge_models_with_cache: arguments
    cached_models,
    merged,             \* merge_models_with_cache: the returned list
    merge_raised,       \* merge_models_with_cache: the exception that left the call
    config_file,        \* load_config: what the config file holds
    configuration,      \* load_config: the return value
    cache_files,        \* the cache file and its temporary file on disk
    savers,             \* the concurrent save_cache calls
    loaded,             \* load_cache: the models of the returned cache
    active_downloads,   \* __init__.active_downloads
    tasks,              \* the download tasks created so far
    download_dir,       \* the files of the download directory
    last_response,      \* the response of the last download or cancel request
    router_routes,      \* the routes of PromptServer.instance.app.router
    routes_registered,  \* __init__._routes_registered
    attempt,            \* delayed_registration: attempt
    failures,           \* the calls so far that failed after adding a route
    last_call,          \* what the last call of register_api_routes found and did
    probe_files,        \* the (category, filename) pairs that name a file now
    probe,              \* the hint and the result of try_resolve_model_path
    references,         \* the references built from the probes
    changes,            \* the files created and deleted so far
    list_objects,       \* the lists of paths the registry and the mappings refer to
    folder_names_and_paths,  \* folder_paths.folder_names_and_paths
    model_directories,  \* what the last call of get_model_directories returned
    directory_calls     \* the calls of get_model_directories so far

normVars  == <<filename, normalized, passes>>
simVars   == <<str1, str2, char_sim, prev_char_sim, final_sim>>
tokVars   == <<tokens1, tokens2, token_sim, prev_token_sim>>
matchVars == <<target_model, candidate_models, threshold, max_results, matches, raised>>
wfVars    == <<workflow_json, workflow_format>>
analyzerVars == <<folder_paths, importable, registry_files, all_model_refs,
                  analyze_raised, workflow_models, missing>>
callerVars   == <<callers>>
scannerVars  == <<directories, additional_dirs, all_models, scan_raised, response>>
mergeVars    == <<scanned_models, cached_models, merged, merge_raised>>
configVars   == <<config_file, configuration>>
cacheVars    == <<cache_files, savers, loaded>>
downloadVars == <<active_downloads, tasks, download_dir, last_response>>
registerVars == <<router_routes, routes_registered, attempt, failures, last_call>>
probeVars    == <<probe_files, probe, references, changes>>
dirVars      == <<list_objects, folder_names_and_paths, model_directories, directory_calls>>
plumbVars    == <<mergeVars, configVars, cacheVars, downloadVars, registerVars, probeVars,
                 dirVars>>
vars      == <<pc, normVars, simVars, tokVars, matchVars, wfVars,
               analyzerVars, callerVars, scannerVars, plumbVars>>

---------------------------------------------------------------------------
(* Exact rational arithmetic for the scores.                               *)

RECURSIVE GCD(_, _)
GCD(a, b) == IF b = 0 THEN a ELSE GCD(b, a % b)

Frac(n, d) == LET g == GCD(n, d) IN [n |-> n \div g, d |-> d \div g]

Zero == [n |-> 0, d |-> 1]
One  == [n |-> 1, d |-> 1]

FAdd(x, y) == Frac(x.n * y.d + y.n * x.d, x.d * y.d)
FMul(x, y) == Frac(x.n * y.n, x.d * y.d)
FLe(x, y)  == x.n * y.d <= y.n * x.d
FLt(x, y)  == x.n * y.d < y.n * x.d
FMin(x, y) == IF FLe(x, y) THEN x ELSE y
FMax(x, y) == IF FLe(y, x) THEN x ELSE y

Min2(a, b) == IF a <= b THEN a ELSE b

\* F(v), with v evaluated once: an assignment to a local variable.  (TLC
\* may evaluate an operator's argument again at each of its uses.)
Local(v, F(_)) == CHOOSE r \in {F(x) : x \in {v}} : TRUE

\* All sequences over S of length 0..n.
SeqsUpTo(S, n) == UNION {[1..k -> S] : k \in 0..n}

---------------------------------------------------------------------------
(* Characters.                                                             *)

UpperChars == <<"A","B","C","D","E","F","G","H","I","J","K","L","M",
                "N","O","P","Q","R","S","T","U","V","W","X","Y","Z">>
LowerChars == <<"a","b","c","d","e","f","g","h","i","j","k","l","m",
                "n","o","p","q","r","s","t","u","v","w","x","y","z">>

\* str.lower() on one character
LowerChar(c) ==
    IF \E i \in 1..Len(UpperChars) : UpperChars[i] = c
    THEN LowerChars[CHOOSE i \in 1..Len(UpperChars) : UpperChars[i] = c]
    ELSE c

\* str.lower()
Lower(s) == [i \in 1..Len(s) |-> LowerChar(s[i])]

\* the regular expression class \s, as far as the model's alphabet goes
Whitespace == {" ", "\t"}

\* the class [_\-\s] of normalize_filename
NormSeparators == {"_", "-"} \cup Whitespace

\* the class [_\-\.] of tokenize_model_name
TokenSeparators == {"_", "-", "."}

\* the last index of character c in s, 0 when there is none (str.rfind + 1)
RFind(s, c) ==
    IF \E i \in 1..Len(s) : s[i] = c
    THEN CHOOSE i \in 1..Len(s) : s[i] = c /\ \A j \in (i+1)..Len(s) : s[j] # c
    ELSE 0

\* os.path.basename (posixpath): what follows the last "/"
basename(p) == SubSeq(p, RFind(p, "/") + 1, Len(p))

\* os.path.splitext(p)[0] (genericpath._splitext): the extension starts at the
\* last dot of the last path component, unless only dots precede it there.
splitext_root(p) ==
    LET sepIndex == RFind(p, "/")
        dotIndex == RFind(p, ".")
    IN  IF dotIndex > sepIndex
           /\ \E k \in (sepIndex + 1)..(dotIndex - 1) : p[k] # "."
        THEN SubSeq(p, 1, dotIndex - 1)
        ELSE p

\* re.sub(r'[<seps>]+', ' ', s): every maximal run of separators becomes one space
RECURSIVE re_sub_runs(_, _)
re_sub_runs(seps, s) ==
    IF s = <<>> THEN <<>>
    ELSE IF Head(s) \in seps
         THEN IF Len(s) > 1 /\ s[2] \in seps
              THEN re_sub_runs(seps, Tail(s))
              ELSE <<" ">> \o re_sub_runs(seps, Tail(s))
         ELSE <<Head(s)>> \o re_sub_runs(seps, Tail(s))

\* str.strip()
RECURSIVE strip(_)
strip(s) ==
    IF s = <<>> THEN s
    ELSE IF Head(s) \in Whitespace THEN strip(Tail(s))
    ELSE IF s[Len(s)] \in Whitespace THEN strip(SubSeq(s, 1, Len(s) - 1))
    ELSE s

\* A normalize_filename that trims before it replaces the separators.
normalize_filename_strip_first(name) ==
    re_sub_runs(NormSeparators, strip(Lower(splitext_root(name))))

normalize_filename(name) ==
    strip(re_sub_runs(NormSeparators, Lower(splitext_root(name))))

\* str.split(): the maximal runs of non-whitespace characters
RECURSIVE split(_, _)
split(s, cur) ==
    IF s = <<>> THEN (IF cur = <<>> THEN <<>> ELSE <<cur>>)
    ELSE IF Head(s) \in Whitespace
         THEN (IF cur = <<>> THEN <<>> ELSE <<cur>>) \o split(Tail(s), <<>>)
         ELSE split(Tail(s), Append(cur, Head(s)))

tokenize_model_name(name) ==
    split(re_sub_runs(TokenSeparators, Lower(splitext_root(name))), <<>>)

---------------------------------------------------------------------------
(* calculate_token_similarity                                              *)

Range(s) == {s[i] : i \in 1..Len(s)}

\* the number of leading positions compared for the order bonus
MaxCheck == 3

\* the order bonus weight 0.2
OrderBonus == Frac(1, 5)

\* The score with the order bonus granted to one-token lists as well.
calculate_token_similarity_bonus_single(t1, t2) ==
    IF t1 = <<>> \/ t2 = <<>> THEN Zero
    ELSE
      LET set1 == Range(t1)
          set2 == Range(t2)
          jaccard == Frac(Cardinality(set1 \cap set2), Cardinality(set1 \cup set2))
          max_check == Min2(MaxCheck, Min2(Len(t1), Len(t2)))
          matching_order == Cardinality({i \in 1..max_check : t1[i] = t2[i]})
          order_score == FMul(Frac(matching_order, max_check), OrderBonus)
      IN  FMin(FAdd(jaccard, order_score), One)

calculate_token_similarity(t1, t2) ==
    IF t1 = <<>> \/ t2 = <<>> THEN Zero
    ELSE
      LET set1 == Range(t1)
          set2 == Range(t2)
          jaccard == Frac(Cardinality(set1 \cap set2), Cardinality(set1 \cup set2))
          max_check == Min2(MaxCheck, Min2(Len(t1), Len(t2)))
          matching_order == Cardinality({i \in 1..max_check : t1[i] = t2[i]})
          order_score ==
              IF Len(t1) > 1 /\ Len(t2) > 1
              THEN FMul(Frac(matching_order, max_check), OrderBonus)
              ELSE Zero
      IN  FMin(FAdd(jaccard, order_score), One)

---------------------------------------------------------------------------
(* calculate_similarity: difflib.SequenceMatcher(None, a, b).ratio().      *)
(* Without a junk predicate, and for b shorter than 200 elements (below    *)
(* difflib's autojunk limit), the matching blocks are: the longest common  *)
(* block, the one starting earliest in a and then earliest in b among the  *)
(* longest, and recursively the blocks to its left and to its right.       *)

\* the length of the common run of a[i..ahi-1] and b[j..bhi-1] (bounds exclusive)
RECURSIVE RunLen(_, _, _, _, _, _)
RunLen(a, b, i, j, ahi, bhi) ==
    IF i < ahi /\ j < bhi /\ a[i] = b[j]
    THEN 1 + RunLen(a, b, i + 1, j + 1, ahi, bhi)
    ELSE 0

SetMax(S) == CHOOSE x \in S : \A y \in S : y <= x
SetMin(S) == CHOOSE x \in S : \A y \in S : x <= y

\* find_longest_match scans i ascending and, for each i, j ascending, and
\* replaces its best block only by a strictly longer one: it returns the
\* longest block, the earliest in a among the longest, the earliest in b
\* among those; (alo, blo, 0) when nothing matches.
find_longest_match(a, b, alo, ahi, blo, bhi) ==
    Local({<<i, j, RunLen(a, b, i, j, ahi, bhi)>> :
              <<i, j>> \in {p \in (alo..(ahi - 1)) \X (blo..(bhi - 1)) : a[p[1]] = b[p[2]]}},
          LAMBDA blocks :
             IF blocks = {} THEN <<alo, blo, 0>>
             ELSE Local(SetMax({m[3] : m \in blocks}), LAMBDA k :
                  Local(SetMin({m[1] : m \in {x \in blocks : x[3] = k}}), LAMBDA i :
                     <<i, SetMin({m[2] : m \in {x \in blocks : x[3] = k /\ x[1] = i}}), k>>)))

\* the total size of get_matching_blocks() within a[alo..ahi-1], b[blo..bhi-1]
RECURSIVE MatchedSize(_, _, _, _, _, _)
MatchedSize(a, b, alo, ahi, blo, bhi) ==
    IF alo >= ahi \/ blo >= bhi THEN 0
    ELSE Local(find_longest_match(a, b, alo, ahi, blo, bhi),
               LAMBDA m :   \* m = <<i, j, k>>
                  IF m[3] = 0 THEN 0
                  ELSE m[3] + MatchedSize(a, b, alo, m[1], blo, m[2])
                            + MatchedSize(a, b, m[1] + m[3], ahi, m[2] + m[3], bhi))

\* A ratio over the shorter string: matched characters / min(len).
calculate_similarity_overlap(s1, s2) ==
    IF Len(s1) + Len(s2) = 0 THEN One
    ELSE IF Len(s1) = 0 \/ Len(s2) = 0 THEN Zero
    ELSE Local(MatchedSize(s1, s2, 1, Len(s1) + 1, 1, Len(s2) + 1),
               LAMBDA matched : Frac(matched, Min2(Len(s1), Len(s2))))

calculate_similarity(s1, s2) ==
    IF Len(s1) + Len(s2) = 0 THEN One
    ELSE Local(MatchedSize(s1, s2, 1, Len(s1) + 1, 1, Len(s2) + 1),
               LAMBDA matched : Frac(2 * matched, Len(s1) + Len(s2)))

---------------------------------------------------------------------------
(* calculate_similarity_with_normalization                                 *)

TokenWeight == Frac(7, 10)
CharWeight  == Frac(3, 10)

\* the 70/30 blend of the token score and the character ratio
BlendedSimilarity(s1, s2) ==
    Local(<<tokenize_model_name(s1), tokenize_model_name(s2),
            normalize_filename(s1), normalize_filename(s2)>>,
          LAMBDA v :   \* v = <<tokens1, tokens2, norm1, norm2>>
             Local(<<calculate_token_similarity(v[1], v[2]), calculate_similarity(v[3], v[4])>>,
                   LAMBDA sims :   \* sims = <<token_sim, char_sim>>
                      FAdd(FMul(sims[1], TokenWeight), FMul(sims[2], CharWeight))))

\* The blend with the token score alone.
calculate_similarity_token_only(s1, s2) ==
    IF normalize_filename(s1) = normalize_filename(s2) THEN One
    ELSE calculate_token_similarity(tokenize_model_name(s1), tokenize_model_name(s2))

calculate_similarity_with_normalization(s1, s2) ==
    IF normalize_filename(s1) = normalize_filename(s2) THEN One
    ELSE BlendedSimilarity(s1, s2)

---------------------------------------------------------------------------
(* find_matches                                                            *)
(*                                                                         *)
(* A value stored in a candidate dictionary is absent, a string or an      *)
(* integer; a candidate is a dictionary or (mapping = FALSE) some object   *)
(* without a get method.                                                   *)

Absent    == [t |-> "absent", s |-> <<>>, n |-> 0]
StrVal(s) == [t |-> "str", s |-> s, n |-> 0]
IntVal(n) == [t |-> "int", s |-> <<>>, n |-> n]

\* Python truth value: None (an absent key), '' and 0 are false
Truthy(v) == (v.t = "str" /\ v.s # <<>>) \/ (v.t = "int" /\ v.n # 0)

\* the cap for matches that are not exact: 0.999
SimilarityCap == Frac(999, 1000)

\* round(similarity * 100, 1), in tenths of a percent (an exact tie rounds to even)
confidence(sim) ==
    LET q == (sim.n * 1000) \div sim.d
        r == (sim.n * 1000) % sim.d
    IN  IF 2 * r > sim.d \/ (2 * r = sim.d /\ q % 2 = 1) THEN q + 1 ELSE q

\* lines 201-207: candidate_filename, or the TypeError of os.path.basename
candidate_filename(c) ==
    IF Truthy(c.filename) THEN [exc |-> "none", value |-> c.filename]
    ELSE LET candidate_path == IF Truthy(c.path) THEN c.path ELSE c.relative_path
         IN  IF ~Truthy(candidate_path) THEN [exc |-> "none", value |-> c.filename]
             ELSE IF candidate_path.t = "str"
                  THEN [exc |-> "none", value |-> StrVal(basename(candidate_path.s))]
                  ELSE [exc |-> "TypeError", value |-> Absent]

\* The similarity without the 0.999 cap.
similarity_uncapped(target_filename, cand_filename) ==
    IF normalize_filename(target_filename) = normalize_filename(cand_filename) THEN One
    ELSE Local(<<calculate_similarity_with_normalization(target_filename, cand_filename),
                 calculate_similarity_with_normalization(splitext_root(target_filename),
                                                         splitext_root(cand_filename))>>,
               LAMBDA s : FMax(s[1], s[2]))

\* The similarity without the comparison of the extension-less names.
similarity_without_stems(target_filename, cand_filename) ==
    IF normalize_filename(target_filename) = normalize_filename(cand_filename) THEN One
    ELSE Local(calculate_similarity_with_normalization(target_filename, cand_filename),
               LAMBDA sim : IF FLe(SimilarityCap, sim) THEN SimilarityCap ELSE sim)

\* lines 217-240: the similarity of one candidate filename
similarity(target_filename, cand_filename) ==
    IF normalize_filename(target_filename) = normalize_filename(cand_filename) THEN One
    ELSE Local(<<calculate_similarity_with_normalization(target_filename, cand_filename),
                 calculate_similarity_with_normalization(splitext_root(target_filename),
                                                         splitext_root(cand_filename))>>,
               LAMBDA s :   \* s = <<similarity, similarity_no_ext>>
                  Local(FMax(s[1], s[2]),
                        LAMBDA sim : IF FLe(SimilarityCap, sim) THEN SimilarityCap ELSE sim))

\* lines 199-249: the loop over the candidates.  index is the candidate's
\* position in the input list (the identity of the dictionary that the
\* result's 'model' refers to).
RECURSIVE ScanCandidates(_, _, _, _, _)
ScanCandidates(target_filename, cands, i, thr, acc) ==
    IF i > Len(cands) THEN [raised |-> "none", matches |-> acc]
    ELSE IF ~cands[i].mapping THEN [raised |-> "AttributeError", matches |-> <<>>]
    ELSE Local(candidate_filename(cands[i]), LAMBDA cf :
           IF cf.exc # "none" THEN [raised |-> cf.exc, matches |-> <<>>]
           ELSE IF ~Truthy(cf.value)
                THEN ScanCandidates(target_filename, cands, i + 1, thr, acc)
           ELSE IF cf.value.t # "str" THEN [raised |-> "TypeError", matches |-> <<>>]
           ELSE Local(similarity(target_filename, cf.value.s), LAMBDA sim :
                   Local(IF FLe(thr, sim)
                         THEN Append(acc, [model |-> cands[i], index |-> i,
                                           filename |-> cf.value.s,
                                           similarity |-> sim,
                                           confidence |-> confidence(sim)])
                         ELSE acc,
                         LAMBDA acc2 :
                            ScanCandidates(target_filename, cands, i + 1, thr, acc2))))

\* the place of m in a list sorted by descending similarity: behind every
\* entry that is not smaller
InsertBehindEqual(sorted, m) ==
    LET k == Cardinality({i \in 1..Len(sorted) : FLe(m.similarity, sorted[i].similarity)})
    IN  SubSeq(sorted, 1, k) \o <<m>> \o SubSeq(sorted, k + 1, Len(sorted))

\* in front of the entries that are equal
InsertBeforeEqual(sorted, m) ==
    LET k == Cardinality({i \in 1..Len(sorted) : FLt(m.similarity, sorted[i].similarity)})
    IN  SubSeq(sorted, 1, k) \o <<m>> \o SubSeq(sorted, k + 1, Len(sorted))

\* A descending sort that reverses equal entries (an ascending sort, reversed).
RECURSIVE sort_by_similarity_reversing_ties(_)
sort_by_similarity_reversing_ties(ms) ==
    IF ms = <<>> THEN <<>>
    ELSE Local(sort_by_similarity_reversing_ties(SubSeq(ms, 1, Len(ms) - 1)),
               LAMBDA sorted : InsertBeforeEqual(sorted, ms[Len(ms)]))

\* line 252: list.sort(key = similarity, reverse = True), which is stable
RECURSIVE sort_by_similarity(_)
sort_by_similarity(ms) ==
    IF ms = <<>> THEN <<>>
    ELSE Local(sort_by_similarity(SubSeq(ms, 1, Len(ms) - 1)),
               LAMBDA sorted : InsertBehindEqual(sorted, ms[Len(ms)]))

\* A slice that keeps one entry more.
slice_to_one_more(ms, k) ==
    IF k >= 0 THEN SubSeq(ms, 1, Min2(k + 1, Len(ms)))
    ELSE SubSeq(ms, 1, IF Len(ms) + k > 0 THEN Len(ms) + k ELSE 0)

\* line 255: matches[:max_results]
slice_to(ms, k) ==
    IF k >= 0 THEN SubSeq(ms, 1, Min2(k, Len(ms)))
    ELSE SubSeq(ms, 1, IF Len(ms) + k > 0 THEN Len(ms) + k ELSE 0)

find_matches(target, cands, thr, maxres) ==
    Local(basename(target), LAMBDA target_filename :
       Local(ScanCandidates(target_filename, cands, 1, thr, <<>>), LAMBDA scan :
          IF scan.raised # "none" THEN scan
          ELSE Local(sort_by_similarity(scan.matches), LAMBDA sorted :
                  [raised |-> "none", matches |-> slice_to(sorted, maxres)])))

---------------------------------------------------------------------------
(* detect_workflow_format                                                  *)
(*                                                                         *)
(* A workflow document is a mapping from top-level keys to JSON values; a  *)
(* value is a list, a string, null, or a mapping with the given keys.      *)

JList       == [t |-> "list", keys |-> {}]
JStr        == [t |-> "str",  keys |-> {}]
JNull       == [t |-> "null", keys |-> {}]
JDict(keys) == [t |-> "dict", keys |-> keys]

\* A detection that looks for API-shaped entries first.
detect_workflow_format_api_first(doc) ==
    IF \E key \in DOMAIN doc :
           doc[key].t = "dict" /\ "class_type" \in doc[key].keys /\ "inputs" \in doc[key].keys
    THEN "api"
    ELSE IF "nodes" \in DOMAIN doc /\ doc["nodes"].t = "list" THEN "graph"
    ELSE "unknown"

detect_workflow_format(doc) ==
    IF "nodes" \in DOMAIN doc /\ doc["nodes"].t = "list" THEN "graph"
    ELSE IF \E key \in DOMAIN doc :
                doc[key].t = "dict" /\ "class_type" \in doc[key].keys
                                    /\ "inputs" \in doc[key].keys
         THEN "api"
         ELSE "unknown"

---------------------------------------------------------------------------
(* The workflow analyzer: extraction of model references.                  *)
(*                                                                         *)
(* JSON values reuse the records above: Absent is None (or a missing key   *)
(* read with .get), StrVal a string, IntVal a number, ListVal a non-empty  *)
(* list such as a connection reference.  NoKey marks a key that a          *)
(* dictionary does not have at all.                                        *)

ListVal    == [t |-> "list", s |-> <<>>, n |-> 0]
BoolVal(b) == [t |-> "bool", s |-> <<>>, n |-> IF b THEN 1 ELSE 0]
NoKey      == [t |-> "nokey", s |-> <<>>, n |-> 0]

MODEL_EXTENSIONS ==
    { <<".","c","k","p","t">>,
      <<".","p","t">>,
      <<".","p","t","2">>,
      <<".","b","i","n">>,
      <<".","p","t","h">>,
      <<".","s","a","f","e","t","e","n","s","o","r","s">>,
      <<".","p","k","l">>,
      <<".","s","f","t">>,
      <<".","o","n","n","x">> }

MODEL_INPUT_FIELDS ==
    { <<"c","k","p","t","_","n","a","m","e">>,
      <<"c","h","e","c","k","p","o","i","n","t","_","n","a","m","e">>,
      <<"m","o","d","e","l","_","n","a","m","e">>,
      <<"v","a","e","_","n","a","m","e">>,
      <<"l","o","r","a","_","n","a","m","e">>,
      <<"u","n","e","t","_","n","a","m","e">>,
      <<"c","l","i","p","_","n","a","m","e">>,
      <<"c","o","n","t","r","o","l","_","n","e","t","_","n","a","m","e">>,
      <<"c","o","n","t","r","o","l","n","e","t","_","n","a","m","e">>,
      <<"u","p","s","c","a","l","e","_","m","o","d","e","l">>,
      <<"h","y","p","e","r","n","e","t","w","o","r","k","_","n","a","m","e">>,
      <<"e","m","b","e","d","d","i","n","g","_","n","a","m","e">> }

\* the node types with an expected category
NODE_TYPE_TO_CATEGORY_HINTS ==
    [name \in {"CheckpointLoaderSimple", "CheckpointLoader", "unCLIPCheckpointLoader",
               "VAELoader", "LoraLoader", "LoraLoaderModelOnly", "UNETLoader",
               "ControlNetLoader", "ControlNetLoaderAdvanced", "CLIPLoader",
               "CLIPVisionLoader", "UpscaleModelLoader", "HypernetworkLoader",
               "EmbeddingLoader"} |->
        CASE name \in {"CheckpointLoaderSimple", "CheckpointLoader",
                       "unCLIPCheckpointLoader"} -> "checkpoints"
          [] name = "VAELoader" -> "vae"
          [] name \in {"LoraLoader", "LoraLoaderModelOnly"} -> "loras"
          [] name = "UNETLoader" -> "diffusion_models"
          [] name \in {"ControlNetLoader", "ControlNetLoaderAdvanced"} -> "controlnet"
          [] name = "CLIPLoader" -> "text_encoders"
          [] name = "CLIPVisionLoader" -> "clip_vision"
          [] name = "UpscaleModelLoader" -> "upscale_models"
          [] name = "HypernetworkLoader" -> "hypernetworks"
          [] name = "EmbeddingLoader" -> "embeddings"]

\* os.path.splitext(p)[1]
splitext_ext(p) == SubSeq(p, Len(splitext_root(p)) + 1, Len(p))

\* str.endswith
EndsWith(s, suffix) ==
    Len(s) >= Len(suffix) /\ SubSeq(s, Len(s) - Len(suffix) + 1, Len(s)) = suffix

SuffixName == <<"_","n","a","m","e">>  \* "_name"

\* is_model_filename: the extension of the lowered value is a known one.
is_model_filename(value) ==
    value.t = "str" /\ splitext_ext(Lower(value.s)) \in MODEL_EXTENSIONS

\* A node type is a string, or a list (which cannot be a dictionary key), or
\* absent.
NodeType(name)  == [t |-> "str", name |-> name]
UnhashableType  == [t |-> "list", name |-> ""]
NoType          == [t |-> "absent", name |-> ""]

\* NODE_TYPE_TO_CATEGORY_HINTS.get(node_type), "" for None
CategoryHint(node_type) ==
    IF node_type.name \in DOMAIN NODE_TYPE_TO_CATEGORY_HINTS
    THEN NODE_TYPE_TO_CATEGORY_HINTS[node_type.name]
    ELSE ""

\* The registry folder_paths as try_resolve_model_path sees it: whether the
\* module handle is usable (after the lazy import), the registered
\* categories in order, and the (category, filename) pairs for which
\* get_full_path names an existing file.
Registry(usable, names, files) == [usable |-> usable, names |-> names, files |-> files]

FullPath(category, name) == [category |-> category, name |-> name]
NoPath == [category |-> "", name |-> <<>>]

\* folder_paths.get_full_path(category, filename) and os.path.exists on it;
\* a category that is not registered has no files
get_full_path(reg, category, name) ==
    IF category \in Range(reg.names) /\ <<category, name>> \in reg.files
    THEN FullPath(category, name)
    ELSE NoPath

\* categories=None, or a list
AllCategories      == [none |-> TRUE, list |-> <<>>]
Categories(list)   == [none |-> FALSE, list |-> list]

skip_categories == {"custom_nodes", "configs"}

\* [c for c in categories if c not in skip]
RECURSIVE Without(_, _)
Without(cats, skip) ==
    IF cats = <<>> THEN <<>>
    ELSE IF Head(cats) \in skip THEN Without(Tail(cats), skip)
         ELSE <<Head(cats)>> \o Without(Tail(cats), skip)

\* lines 103-111: the probe loop; probed lists the categories handed to
\* get_full_path
RECURSIVE ProbeCategories(_, _, _, _)
ProbeCategories(reg, cats, name, probed) ==
    IF cats = <<>>
    THEN [found |-> FALSE, category |-> "", full_path |-> NoPath, probed |-> probed]
    ELSE LET full_path == get_full_path(reg, Head(cats), name)
         IN  IF full_path # NoPath
             THEN [found |-> TRUE, category |-> Head(cats), full_path |-> full_path,
                   probed |-> Append(probed, Head(cats))]
             ELSE ProbeCategories(reg, Tail(cats), name, Append(probed, Head(cats)))

\* A resolution that probes every category it is given.
try_resolve_model_path_no_skip(value, categories, reg) ==
    IF value.t # "str" \/ strip(value.s) = <<>> \/ ~reg.usable
    THEN [found |-> FALSE, category |-> "", full_path |-> NoPath, probed |-> <<>>]
    ELSE ProbeCategories(reg,
             IF categories.none THEN reg.names ELSE categories.list,
             strip(value.s), <<>>)

try_resolve_model_path(value, categories, reg) ==
    IF value.t # "str" \/ strip(value.s) = <<>> \/ ~reg.usable
    THEN [found |-> FALSE, category |-> "", full_path |-> NoPath, probed |-> <<>>]
    ELSE ProbeCategories(reg,
             Without(IF categories.none THEN reg.names ELSE categories.list,
                     skip_categories),
             strip(value.s), <<>>)

\* lines 158 and 220
categories_to_try(category_hint) ==
    IF category_hint # "" THEN Categories(<<category_hint>>) ELSE AllCategories

\* A model reference (a dictionary); the keys a reference does not have hold
\* NoKey.  probed is not part of the dictionary: it records the categories
\* the resolution of this reference handed to get_full_path.
Reference(node_id, node_type, widget_index, field_name, value, category_hint, resolved) ==
    [ node_id       |-> node_id,
      node_type     |-> node_type,
      widget_index  |-> widget_index,
      field_name    |-> field_name,
      original_path |-> value,
      category      |-> IF resolved.found THEN resolved.category
                        ELSE IF category_hint # "" THEN category_hint ELSE "unknown",
      full_path     |-> resolved.full_path,
      exists        |-> resolved.found,
      subgraph_id   |-> NoKey,
      subgraph_name |-> NoKey,
      is_top_level  |-> NoKey,
      probed        |-> resolved.probed ]

\* lines 167-169
is_model_field(field_name, value) ==
    \/ Lower(field_name) \in MODEL_INPUT_FIELDS
    \/ EndsWith(Lower(field_name), SuffixName)
    \/ is_model_filename(value)

\* An inputs or widgets_values entry of a node: absent, a dictionary of
\* fields in order, a list of items, or a value of another type.
NoEntry        == [t |-> "absent", fields |-> <<>>, items |-> <<>>]
Inputs(fields) == [t |-> "dict", fields |-> fields, items |-> <<>>]
Field(name, value) == [name |-> name, value |-> value]
Items(items)   == [t |-> "list", fields |-> <<>>, items |-> items]
NumberEntry    == [t |-> "int", fields |-> <<>>, items |-> <<>>]

\* not inputs / not widgets_values
Falsy(entry) ==
    \/ entry.t = "absent"
    \/ entry.t = "dict" /\ entry.fields = <<>>
    \/ entry.t = "list" /\ entry.items = <<>>

\* an API node: a dictionary, or (mapping = FALSE) a value of another type
ApiNode(class_type, inputs) ==
    [mapping |-> TRUE, class_type |-> class_type, inputs |-> inputs]
NoApiNode == [mapping |-> FALSE, class_type |-> NoType, inputs |-> NoEntry]

\* lines 161-195: the loop over inputs.items()
RECURSIVE ApiFieldRefs(_, _, _, _, _)
ApiFieldRefs(node_id, class_type, fields, category_hint, reg) ==
    IF fields = <<>> THEN <<>>
    ELSE LET field_name == Head(fields).name
             value == Head(fields).value
             rest == ApiFieldRefs(node_id, class_type, Tail(fields), category_hint, reg)
         IN  IF value.t # "str" \/ ~is_model_field(field_name, value) THEN rest
             ELSE <<Reference(node_id, class_type, StrVal(field_name), StrVal(field_name),
                              value, category_hint,
                              try_resolve_model_path(value, categories_to_try(category_hint), reg))>>
                  \o rest

\* An extraction that keeps the fields named in MODEL_INPUT_FIELDS only.
get_node_model_info_api_known_fields(node_id, node_data, reg) ==
    LET class_type == IF node_data.class_type.t = "absent" THEN NodeType("")
                      ELSE node_data.class_type
        inputs == node_data.inputs
    IN  IF Falsy(inputs) THEN [raised |-> "none", refs |-> <<>>]
        ELSE IF class_type.t = "list" THEN [raised |-> "TypeError", refs |-> <<>>]
        ELSE IF inputs.t # "dict" THEN [raised |-> "AttributeError", refs |-> <<>>]
        ELSE [raised |-> "none",
              refs |-> ApiFieldRefs(node_id, class_type,
                           SelectSeq(inputs.fields,
                                     LAMBDA f : Lower(f.name) \in MODEL_INPUT_FIELDS),
                           CategoryHint(class_type), reg)]

\* The result is the returned list, or the exception that left the call.
get_node_model_info_api(node_id, node_data, reg) ==
    LET class_type == IF node_data.class_type.t = "absent" THEN NodeType("")
                      ELSE node_data.class_type
        inputs == node_data.inputs
    IN  IF Falsy(inputs) THEN [raised |-> "none", refs |-> <<>>]
        ELSE IF class_type.t = "list" THEN [raised |-> "TypeError", refs |-> <<>>]
        ELSE IF inputs.t # "dict" THEN [raised |-> "AttributeError", refs |-> <<>>]
        ELSE [raised |-> "none",
              refs |-> ApiFieldRefs(node_id, class_type, inputs.fields,
                                    CategoryHint(class_type), reg)]

\* a graph node: a dictionary, or (mapping = FALSE) a value of another type
GraphNode(id, type, widgets_values) ==
    [mapping |-> TRUE, id |-> id, type |-> type, widgets_values |-> widgets_values]
NoGraphNode == [mapping |-> FALSE, id |-> Absent, type |-> NoType, widgets_values |-> NoEntry]

\* lines 223-246: the loop over enumerate(widgets_values), idx counted from 0
RECURSIVE WidgetRefs(_, _, _, _, _, _)
WidgetRefs(node_id, node_type, items, idx, category_hint, reg) ==
    IF idx >= Len(items) THEN <<>>
    ELSE LET value == items[idx + 1]
             rest == WidgetRefs(node_id, node_type, items, idx + 1, category_hint, reg)
         IN  IF ~is_model_filename(value) THEN rest
             ELSE <<Reference(node_id, node_type, IntVal(idx), NoKey, value, category_hint,
                              try_resolve_model_path(value, categories_to_try(category_hint), reg))>>
                  \o rest

\* An extraction that counts the widget positions from 1.
get_node_model_info_graph_from_one(node, reg) ==
    IF ~node.mapping THEN [raised |-> "AttributeError", refs |-> <<>>]
    ELSE LET node_type == IF node.type.t = "absent" THEN NodeType("") ELSE node.type
             widgets_values == node.widgets_values
             refs == WidgetRefs(node.id, node_type, widgets_values.items, 0,
                                CategoryHint(node_type), reg)
         IN  IF Falsy(widgets_values) THEN [raised |-> "none", refs |-> <<>>]
             ELSE IF node_type.t = "list" \/ widgets_values.t # "list"
                  THEN [raised |-> "TypeError", refs |-> <<>>]
             ELSE [raised |-> "none",
                   refs |-> [k \in 1..Len(refs) |->
                               [refs[k] EXCEPT !.widget_index = IntVal(@.n + 1)]]]

get_node_model_info_graph(node, reg) ==
    IF ~node.mapping THEN [raised |-> "AttributeError", refs |-> <<>>]
    ELSE LET node_type == IF node.type.t = "absent" THEN NodeType("") ELSE node.type
             widgets_values == node.widgets_values
         IN  IF Falsy(widgets_values) THEN [raised |-> "none", refs |-> <<>>]
             ELSE IF node_type.t = "list" \/ widgets_values.t # "list"
                  THEN [raised |-> "TypeError", refs |-> <<>>]
             ELSE [raised |-> "none",
                   refs |-> WidgetRefs(node.id, node_type, widgets_values.items, 0,
                                       CategoryHint(node_type), reg)]

\* A workflow document: a dictionary with an optional "nodes" entry, an
\* optional "definitions" entry and further entries in order, or a value
\* that is no dictionary (a list, a string, null).
NoDefinitions           == [t |-> "absent", subgraphs |-> NoEntry]
Definitions(subgraphs)  == [t |-> "dict", subgraphs |-> subgraphs]
ListDefinitions         == [t |-> "list", subgraphs |-> NoEntry]

\* a subgraph: a dictionary, or (mapping = FALSE) a value of another type;
\* name is NoKey when the dictionary has no "name"
Subgraph(id, name, nodes) == [mapping |-> TRUE, id |-> id, name |-> name, nodes |-> nodes]
NoSubgraph == [mapping |-> FALSE, id |-> Absent, name |-> NoKey, nodes |-> NoEntry]

Entry(key, node) == [key |-> key, node |-> node]

Document(nodes, definitions, entries) ==
    [t |-> "dict", nodes |-> nodes, definitions |-> definitions, entries |-> entries]
NonMapping(t) ==
    [t |-> t, nodes |-> NoEntry, definitions |-> NoDefinitions, entries |-> <<>>]

\* the string of a sequence of characters
RECURSIVE Join(_)
Join(s) == IF s = <<>> THEN "" ELSE Head(s) \o Join(Tail(s))

\* The document as detect_workflow_format reads it: the top-level keys and,
\* for each, the type of the value and the keys of a dictionary.
ShallowDocument(document) ==
    LET entryKeys == {Join(document.entries[i].key) : i \in 1..Len(document.entries)}
        keys == entryKeys
                \cup (IF document.nodes.t # "absent" THEN {"nodes"} ELSE {})
                \cup (IF document.definitions.t # "absent" THEN {"definitions"} ELSE {})
        node(k) == document.entries[CHOOSE i \in 1..Len(document.entries) :
                                        Join(document.entries[i].key) = k].node
    IN  [k \in keys |->
            IF k = "nodes"
            THEN (IF document.nodes.t = "list" THEN JList ELSE JNull)
            ELSE IF k = "definitions"
            THEN (IF document.definitions.t = "dict"
                  THEN JDict(IF document.definitions.subgraphs.t # "absent"
                             THEN {"subgraphs"} ELSE {})
                  ELSE JList)
            ELSE IF node(k).mapping
            THEN JDict((IF node(k).class_type.t # "absent" THEN {"class_type"} ELSE {})
                       \cup (IF node(k).inputs.t # "absent" THEN {"inputs"} ELSE {}))
            ELSE JStr]

\* detect_workflow_format on any value: the format, or the exception of
\* 'nodes' in workflow_json / workflow_json.items() on a value that is no
\* dictionary
DetectFormat(document) ==
    IF document.t = "dict"
    THEN [raised |-> "none", format |-> detect_workflow_format(ShallowDocument(document))]
    ELSE IF document.t = "null"
    THEN [raised |-> "TypeError", format |-> "none"]
    ELSE [raised |-> "AttributeError", format |-> "none"]

\* lines 269-276: the loop over the API nodes; a failing node is logged and
\* skipped
RECURSIVE ApiNodesRefs(_, _)
ApiNodesRefs(entries, reg) ==
    IF entries = <<>> THEN <<>>
    ELSE LET node_data == Head(entries).node
             rest == ApiNodesRefs(Tail(entries), reg)
         IN  IF node_data.mapping /\ node_data.class_type.t # "absent"
             THEN LET r == get_node_model_info_api(StrVal(Head(entries).key), node_data, reg)
                  IN  IF r.raised = "none" THEN r.refs \o rest ELSE rest
             ELSE rest

\* Subgraph marks without the is_top_level flag.
MarkSubgraph_unflagged(refs, subgraph_id, subgraph_name) ==
    [k \in 1..Len(refs) |->
        [refs[k] EXCEPT !.subgraph_id = subgraph_id,
                        !.subgraph_name = subgraph_name]]

\* lines 302-305: the subgraph marks
MarkSubgraph(refs, subgraph_id, subgraph_name) ==
    [k \in 1..Len(refs) |->
        [refs[k] EXCEPT !.subgraph_id = subgraph_id,
                        !.subgraph_name = subgraph_name,
                        !.is_top_level = BoolVal(FALSE)]]

\* the subgraph the top-level nodes are in: none
TopLevel == [marked |-> FALSE, id |-> NoKey, name |-> NoKey]
InSubgraph(id, name) == [marked |-> TRUE, id |-> id, name |-> name]

\* lines 281-287 and 298-309: the loop over graph nodes.  The handler of a
\* failing node evaluates node.get('id', 'unknown') for its message, which
\* raises in turn when the node is no dictionary.  refs is the list
\* collected when the loop was left, by its end or by the exception.
RECURSIVE GraphNodesRefs(_, _, _)
GraphNodesRefs(nodes, sub, reg) ==
    IF nodes = <<>> THEN [raised |-> "none", refs |-> <<>>]
    ELSE LET node == Head(nodes)
             r == get_node_model_info_graph(node, reg)
         IN  IF r.raised # "none" /\ ~node.mapping
             THEN [raised |-> "AttributeError", refs |-> <<>>]
             ELSE Local(GraphNodesRefs(Tail(nodes), sub, reg), LAMBDA rest :
                    IF r.raised # "none" THEN rest
                    ELSE [raised |-> rest.raised,
                          refs |-> (IF sub.marked
                                    THEN MarkSubgraph(r.refs, sub.id, sub.name)
                                    ELSE r.refs) \o rest.refs])

\* lines 293-309: the loop over the subgraphs
RECURSIVE SubgraphsRefs(_, _)
SubgraphsRefs(subgraphs, reg) ==
    IF subgraphs = <<>> THEN [raised |-> "none", refs |-> <<>>]
    ELSE LET subgraph == Head(subgraphs)
             subgraph_id == subgraph.id
             subgraph_name == IF subgraph.name = NoKey THEN subgraph_id ELSE subgraph.name
         IN  IF ~subgraph.mapping THEN [raised |-> "AttributeError", refs |-> <<>>]
             ELSE IF subgraph.nodes.t = "int" THEN [raised |-> "TypeError", refs |-> <<>>]
             ELSE Local(GraphNodesRefs(subgraph.nodes.items,
                                       InSubgraph(subgraph_id, subgraph_name), reg),
                        LAMBDA here :
                    IF here.raised # "none" THEN here
                    ELSE Local(SubgraphsRefs(Tail(subgraphs), reg), LAMBDA rest :
                           [raised |-> rest.raised, refs |-> here.refs \o rest.refs]))

\* lines 290-291: definitions.get('subgraphs', []) and what iterating it needs
DefinitionsRefs(definitions, reg) ==
    IF definitions.t = "absent" THEN [raised |-> "none", refs |-> <<>>]
    ELSE IF definitions.t # "dict" THEN [raised |-> "AttributeError", refs |-> <<>>]
    ELSE IF definitions.subgraphs.t = "int" THEN [raised |-> "TypeError", refs |-> <<>>]
    ELSE SubgraphsRefs(definitions.subgraphs.items, reg)

\* The exception that left the call ("none" when it returned) and the list
\* all_model_refs at that point, which is the return value when it returned.
analyze_workflow_models(document, reg) ==
    LET detected == DetectFormat(document)
    IN  IF detected.raised # "none" THEN [raised |-> detected.raised, refs |-> <<>>]
        ELSE IF detected.format = "api"
        THEN [raised |-> "none", refs |-> ApiNodesRefs(document.entries, reg)]
        ELSE IF detected.format = "graph"
        THEN Local(GraphNodesRefs(document.nodes.items, TopLevel, reg), LAMBDA top :
               IF top.raised # "none" THEN top
               ELSE Local(DefinitionsRefs(document.definitions, reg), LAMBDA subs :
                      [raised |-> subs.raised, refs |-> top.refs \o subs.refs]))
        ELSE [raised |-> "none", refs |-> <<>>]

\* An identify_missing_models that keeps the references that exist.
identify_missing_models_keep_existing(models) ==
    SelectSeq(models, LAMBDA model_ref : model_ref.exists)

identify_missing_models(models) ==
    SelectSeq(models, LAMBDA model_ref : ~model_ref.exists)

\* The statements of try_resolve_model_path that touch the module-level
\* handle, for calls that run interleaved.

\* A check that leaves a mark for other callers while the import runs.
handle_after_check_marking(handle) == IF handle = "None" THEN "importing" ELSE handle

\* line 87: "if folder_paths is None" reads the handle and leaves it alone
handle_after_check(handle) == handle

\* line 89: "import folder_paths as fp": the module, or ImportError
import_folder_paths(can_import) == IF can_import THEN "module" ELSE "ImportError"

\* lines 97-105 with the handle as it is then: only the module has the
\* registry
resolve_with_handle(value, categories, handle, names, files) ==
    try_resolve_model_path(value, categories, Registry(handle = "module", names, files))

\* the reference of lines 177-195 / 230-246 for one resolution, built from
\* the reference as it is before any registry was consulted
ResolvedReference(ref, resolved) ==
    [Reference(ref.node_id, ref.node_type, ref.widget_index, ref.field_name,
               ref.original_path, CategoryHint(ref.node_type), resolved)
        EXCEPT !.subgraph_id = ref.subgraph_id,
               !.subgraph_name = ref.subgraph_name,
               !.is_top_level = ref.is_top_level]

---------------------------------------------------------------------------
(* The directory scanner.                                                  *)
(*                                                                         *)
(* A path is the sequence of its components, each a sequence of            *)
(* characters; the file system is the list of its files in the order       *)
(* os.walk meets them.                                                     *)

\* whether path p lies below directory d
IsBelow(p, d) == Len(p) > Len(d) /\ SubSeq(p, 1, Len(d)) = d

\* the directory exists (it holds a file, possibly deeper)
DirectoryExists(fs, d) == \E k \in 1..Len(fs) : IsBelow(fs[k], d)

\* line 155: the walk does not descend into directories whose name starts
\* with a dot
InHiddenDirectory(p, d) ==
    \E k \in (Len(d) + 1)..(Len(p) - 1) : p[k] # <<>> /\ p[k][1] = "."

\* line 163
AcceptedByExtension(name, extensions) ==
    LET file_ext == Lower(splitext_ext(name))
    IN  extensions = {} \/ file_ext \in extensions \/ file_ext \in MODEL_EXTENSIONS

\* the record of lines 178-184
ModelRecord(p, d, category) ==
    [ filename       |-> p[Len(p)],
      path           |-> p,
      relative_path  |-> SubSeq(p, Len(d) + 1, Len(p)),
      category       |-> category,
      base_directory |-> d ]

scan_directory(fs, directory, extensions, category) ==
    IF ~DirectoryExists(fs, directory) THEN <<>>
    ELSE LET found == SelectSeq(fs, LAMBDA p :
                          /\ IsBelow(p, directory)
                          /\ ~InHiddenDirectory(p, directory)
                          /\ AcceptedByExtension(p[Len(p)], extensions))
         IN  [k \in 1..Len(found) |-> ModelRecord(found[k], directory, category)]

\* an entry of get_model_directories(): category -> (paths, extensions)
CategoryDirectories(category, paths, extensions) ==
    [category |-> category, paths |-> paths, extensions |-> extensions]

\* lines 219-228: the directories of one category
RECURSIVE ScanPaths(_, _, _, _)
ScanPaths(fs, paths, extensions, category) ==
    IF paths = <<>> THEN <<>>
    ELSE scan_directory(fs, Head(paths), extensions, category)
         \o ScanPaths(fs, Tail(paths), extensions, category)

\* lines 214-230: the registered categories, without the two that hold no
\* models
RECURSIVE ScanCategories(_, _)
ScanCategories(fs, dirs) ==
    IF dirs = <<>> THEN <<>>
    ELSE (IF Head(dirs).category \in {"custom_nodes", "configs"} THEN <<>>
          ELSE ScanPaths(fs, Head(dirs).paths, Head(dirs).extensions, Head(dirs).category))
         \o ScanCategories(fs, Tail(dirs))

\* lines 233-243: the additional directories, scanned as checkpoints
RECURSIVE ScanAdditional(_, _)
ScanAdditional(fs, dirs) ==
    IF dirs = <<>> THEN <<>>
    ELSE scan_directory(fs, Head(dirs), MODEL_EXTENSIONS, "checkpoints")
         \o ScanAdditional(fs, Tail(dirs))

\* the keyword parameters of "def scan_all_directories()": none
scan_all_directories_parameters == {}

\* A call scan_all_directories(**kwargs): the returned list, or the
\* TypeError of a keyword the function does not have.
scan_all_directories(kwargs, fs, dirs, additional) ==
    IF ~(kwargs \subseteq scan_all_directories_parameters)
    THEN [raised |-> "TypeError", models |-> <<>>]
    ELSE [raised |-> "none",
          models |-> ScanCategories(fs, dirs) \o ScanAdditional(fs, additional)]

\* line 262: return scan_all_directories(use_cache=use_cache)
get_model_files(use_cache, fs, dirs, additional) ==
    scan_all_directories({"use_cache"}, fs, dirs, additional)

\* __init__.py lines 125-142: the refresh handler; save_cache is reached
\* only when the scan returned
refresh_cache(fs, dirs, additional) ==
    LET scanned == scan_all_directories({"use_cache"}, fs, dirs, additional)
    IN  IF scanned.raised # "none"
        THEN [status |-> 500, success |-> FALSE, models |-> <<>>]
        ELSE [status |-> 200, success |-> TRUE, models |-> scanned.models]

---------------------------------------------------------------------------
(* The model cache (cache.py).  A path string is a sequence of characters; *)
(* the disk is the set of the absolute paths that exist.                   *)

\* os.path.abspath: a relative path (the empty one included) is joined to
\* the working directory cwd, then normalized as posixpath.normpath does:
\* empty and "." components are dropped, ".." removes the component before
\* it
abspath(p, cwd) ==
    LET full == IF p # <<>> /\ Head(p) = "/" THEN p ELSE cwd \o <<"/">> \o p
        RECURSIVE SplitPath(_, _)
        SplitPath(q, cur) ==
            IF q = <<>> THEN <<cur>>
            ELSE IF Head(q) = "/" THEN <<cur>> \o SplitPath(Tail(q), <<>>)
            ELSE SplitPath(Tail(q), Append(cur, Head(q)))
        RECURSIVE NormParts(_, _)
        NormParts(parts, acc) ==
            IF parts = <<>> THEN acc
            ELSE IF Head(parts) \in {<<>>, <<".">>} THEN NormParts(Tail(parts), acc)
            ELSE IF Head(parts) = <<".", ".">>
                 THEN NormParts(Tail(parts),
                                IF acc = <<>> THEN acc ELSE SubSeq(acc, 1, Len(acc) - 1))
            ELSE NormParts(Tail(parts), Append(acc, Head(parts)))
        RECURSIVE JoinPath(_)
        JoinPath(parts) ==
            IF parts = <<>> THEN <<>> ELSE <<"/">> \o Head(parts) \o JoinPath(Tail(parts))
        normal == NormParts(SplitPath(full, <<>>), <<>>)
    IN  IF normal = <<>> THEN <<"/">> ELSE JoinPath(normal)

\* a model record of the scan or of the cache, with its path (a string,
\* None, or no such key)
CacheModel(name, path) == [filename |-> name, path |-> path]

\* merge_models_with_cache on a disk given by the set of the paths that
\* exist and the working directory; abspath(None) is a TypeError
merge_models_with_cache(scanned, cached, disk, cwd) ==
    LET \* line 195
        scanned_paths ==
            { abspath(scanned[k].path.s, cwd) :
                k \in {i \in 1..Len(scanned) : Truthy(scanned[i].path)} }
        \* lines 201-207
        RECURSIVE AppendCached(_)
        AppendCached(rest) ==
            IF rest = <<>> THEN [raised |-> "none", models |-> <<>>]
            ELSE LET cached_model == Head(rest)
                 IN  IF cached_model.path.t = "absent"
                     THEN [raised |-> "TypeError", models |-> <<>>]
                     ELSE LET cached_path == abspath(cached_model.path.s, cwd)
                              more == AppendCached(Tail(rest))
                              keep == /\ cached_path # <<>>
                                      /\ cached_path \notin scanned_paths
                                      /\ cached_path \in disk
                          IN  [raised |-> more.raised,
                               models |-> (IF keep THEN <<cached_model>> ELSE <<>>)
                                          \o more.models]
        added == AppendCached(cached)
    IN  IF added.raised # "none" THEN [raised |-> added.raised, merged |-> <<>>]
        ELSE [raised |-> "none", merged |-> scanned \o added.models]

---------------------------------------------------------------------------
(* The configuration loader (config_loader.py).  A mapping is a function   *)
(* from its keys to values.                                                *)

\* a mapping value
DictVal(items) == [t |-> "dict", s |-> <<>>, n |-> 0, items |-> items]

\* lines 117-130
defaults ==
    [ additional_directories |-> ListVal,
      cache    |-> DictVal([ enabled                |-> BoolVal(TRUE),
                             filename               |-> StrVal(<<"model_linker_cache.json">>),
                             auto_refresh           |-> BoolVal(TRUE),
                             refresh_interval_hours |-> IntVal(0) ]),
      scanning |-> DictVal([ max_depth       |-> IntVal(0),
                             follow_symlinks |-> BoolVal(TRUE),
                             skip_hidden     |-> BoolVal(TRUE) ]) ]

\* dict.update on mappings given as functions
Updated(d, u) ==
    [k \in DOMAIN d \cup DOMAIN u |-> IF k \in DOMAIN u THEN u[k] ELSE d[k]]

\* load_config for the document the config file holds: NoKey when there is
\* no file, otherwise the value yaml.safe_load returns
load_config(document) ==
    IF document = NoKey THEN defaults                                   \* lines 132-134
    ELSE LET user_config == IF document.t = "dict" THEN document.items    \* line 139
                            ELSE << >>
             \* lines 142-143: the copy is shallow, so a section the user
             \* gives replaces the default section as a whole
             config == Updated(defaults, user_config)
             \* lines 146-149: config[section] is by now the user's own
             \* section, and updating it with itself changes nothing; a
             \* section that is no mapping has no update method
             failed(section) ==
                 section \in DOMAIN user_config /\ user_config[section].t # "dict"
         IN  IF document.t \in {"list", "int", "str"} THEN defaults     \* line 143 raises
             ELSE IF failed("cache") \/ failed("scanning") THEN defaults
             ELSE config

---------------------------------------------------------------------------
(* The cache file (cache.py, save_cache and load_cache).  A file is an     *)
(* inode holding the blocks written to it; the names cache_path and        *)
(* temp_path point to an inode or to none (0).  A document is written in   *)
(* blocks, block k of the document of writer w being <<w, k>>.             *)

\* lines 59-89: load_cache on the files as they are; the default cache when
\* there is no file or when json.load does not accept its content, which
\* it does when it reads as one document: every block, in its place
\* (<<0, 0>> is a position no block was written to)
load_cache(files, blocks) ==
    LET Decodes(content) ==
            /\ Len(content) = blocks
            /\ \A k \in 1..blocks : content[k] # <<0, 0>> /\ content[k][2] = k
    IN  IF files.cache_path = 0 THEN <<>>
        ELSE IF Decodes(files.inodes[files.cache_path])
             THEN files.inodes[files.cache_path]
        ELSE <<>>

---------------------------------------------------------------------------
(* The download handlers (__init__.py).  The download directory holds,     *)
(* for a file name, the destination name "dest" and the temporary name     *)
(* "tmp" (dest_path with ".tmp" appended), each pointing to an inode or to *)
(* none (0); an inode holds the chunks written to it, chunk k of task t    *)
(* being <<t, k>>.                                                         *)

\* what the server sends for a URL: the status, the content-length (in
\* chunks; 0 when the header is missing), the chunks the stream delivers,
\* and whether the stream then breaks off with an error
Transfer(status, total, sends, drops) ==
    [status |-> status, total |-> total, sends |-> sends, drops |-> drops]

\* temp_path.exists() and temp_path.unlink(), as the cleanup of lines
\* 275-276, 296-297, 304-305 and 310-311 does it
Unlinked(dir, name) == [dir EXCEPT !.names[<<name, "tmp">>] = 0]

---------------------------------------------------------------------------
(* Route registration (__init__.py).  The routes are numbered in the order *)
(* of lines 318-325; the router keeps the routes added to it, in order.    *)

NumRoutes == 8

\* lines 38-333: one call.  ready says whether the server module can be
\* imported and PromptServer.instance.app is there (lines 55-69); fail_at is
\* the route whose add raises in this call (0: none).  The router itself
\* raises when the route to add repeats the route added last (the aiohttp
\* router looks only at its last resource), and otherwise appends.
\* last_call keeps what the call found and did.
register_api_routes(ready, fail_at) ==
    LET RECURSIVE AddFrom(_, _)
        AddFrom(k, added) ==
            IF k > NumRoutes
            THEN [returned |-> TRUE, routes |-> added, registered |-> TRUE]
            ELSE IF k = fail_at \/ (added # <<>> /\ added[Len(added)] = k)
            THEN [returned |-> FALSE, routes |-> added, registered |-> FALSE]
            ELSE AddFrom(k + 1, Append(added, k))
        call == IF routes_registered
                THEN [returned |-> TRUE, routes |-> router_routes, registered |-> TRUE]
                ELSE IF ~ready
                THEN [returned |-> FALSE, routes |-> router_routes, registered |-> FALSE]
                ELSE AddFrom(1, router_routes)
    IN  /\ router_routes' = call.routes
        /\ routes_registered' = call.registered
        /\ last_call' = [called |-> TRUE, registered_before |-> routes_registered,
                         returned |-> call.returned,
                         added |-> Len(call.routes) - Len(router_routes)]

---------------------------------------------------------------------------
(* get_model_directories (scanner.py).  A list of paths is an object: the  *)
(* host registry and the returned mapping hold references into objects,    *)
(* and dict.copy() copies the references, not the lists.                   *)

\* lines 25-120.  registry is folder_paths.folder_names_and_paths, category
\* -> (reference to the list of paths, extensions); extra_paths is what
\* folder_paths.get_extra_model_paths() returns, as (category, paths) pairs
\* in order, and whether the registry module has that function; config is
\* the base_path, category and path of the entry of
\* extra_models_config.yaml, and whether there is such a file; existing
\* holds the paths that exist.  The result is the objects after the call
\* and the returned mapping.
get_model_directories(registry, objects, yaml_importable, extra_paths, config, existing, cwd) ==
    LET IsAbs(p) == p # <<>> /\ Head(p) = "/"
        Has(list, p) == \E i \in 1..Len(list) : list[i] = p
        \* lines 73-78 and 109-112: append to the list of the category
        AppendNew(state, category, p) ==
            LET ref == state.directories[category].paths
            IN  IF Has(state.objects[ref], p) THEN state
                ELSE [state EXCEPT !.objects[ref] = Append(@, p)]
        \* lines 81 and 114: a category the mapping does not have yet
        NewCategory(state, category, paths) ==
            [objects |-> Append(state.objects, paths),
             directories |->
                 [c \in DOMAIN state.directories \cup {category} |->
                     IF c = category
                     THEN [paths |-> Len(state.objects) + 1, extensions |-> {}]
                     ELSE state.directories[c]]]
        Abs(p) == IF IsAbs(p) THEN p ELSE abspath(p, cwd)
        RECURSIVE MergePaths(_, _, _)
        MergePaths(state, category, paths) ==
            IF paths = <<>> THEN state
            ELSE MergePaths(AppendNew(state, category, Abs(Head(paths))),
                            category, Tail(paths))
        RECURSIVE MergeExtra(_, _)
        MergeExtra(state, items) ==
            IF items = <<>> THEN state
            ELSE LET category == Head(items)[1]
                     paths == Head(items)[2]
                 IN  MergeExtra(
                         IF category \in DOMAIN state.directories
                         THEN MergePaths(state, category, paths)
                         ELSE NewCategory(state, category,
                                          [i \in 1..Len(paths) |-> Abs(paths[i])]),
                         Tail(items))
        \* lines 86-118
        MergeConfig(state) ==
            IF ~config.present THEN state
            ELSE LET base_path == abspath(config.base_path, cwd)
                     full_path == abspath(IF IsAbs(config.path) THEN config.path
                                          ELSE base_path \o <<"/">> \o config.path, cwd)
                 IN  IF base_path \notin existing \/ full_path \notin existing
                     THEN state
                     ELSE IF config.category \in DOMAIN state.directories
                     THEN AppendNew(state, config.category, full_path)
                     ELSE NewCategory(state, config.category, <<full_path>>)
        copy == [objects |-> objects, directories |-> registry]
    IN  IF ~yaml_importable THEN copy
        ELSE MergeConfig(IF ~extra_paths.callable THEN copy
                         ELSE MergeExtra(copy, extra_paths.items))

---------------------------------------------------------------------------
(* The calls.  Every specification below starts one kind of call on        *)
(* arguments drawn from a bounded set and leaves the other variables idle. *)

NormIdle  == filename = <<>> /\ normalized = <<>> /\ passes = 0
SimIdle   == /\ str1 = <<>> /\ str2 = <<>>
             /\ char_sim = Zero /\ prev_char_sim = Zero /\ final_sim = Zero
TokIdle   == /\ tokens1 = <<>> /\ tokens2 = <<>>
             /\ token_sim = Zero /\ prev_token_sim = Zero
MatchIdle == /\ target_model = <<>> /\ candidate_models = <<>>
             /\ threshold = Zero /\ max_results = 0
             /\ matches = <<>> /\ raised = "none"
WfIdle    == workflow_json = <<>> /\ workflow_format = "none"
AnalyzerIdle == /\ folder_paths = "None" /\ importable = FALSE /\ registry_files = {}
                /\ all_model_refs = <<>> /\ analyze_raised = "none"
                /\ workflow_models = <<>> /\ missing = <<>>
CallerIdle   == callers = <<>>
MergeIdle    == /\ scanned_models = <<>> /\ cached_models = <<>>
                /\ merged = <<>> /\ merge_raised = "none"
ConfigIdle   == config_file = << >> /\ configuration = << >>
CacheIdle    == cache_files = << >> /\ savers = << >> /\ loaded = << >>
DownloadIdle == /\ active_downloads = << >> /\ tasks = << >>
                /\ download_dir = << >> /\ last_response = [handler |-> "none"]
RegisterIdle == /\ router_routes = << >> /\ routes_registered = FALSE /\ attempt = 0
                /\ failures = 0 /\ last_call = [called |-> FALSE]
ProbeIdle    == probe_files = {} /\ probe = << >> /\ references = << >> /\ changes = 0
DirIdle      == /\ list_objects = << >> /\ folder_names_and_paths = << >>
                /\ model_directories = << >> /\ directory_calls = 0
PlumbIdle    == MergeIdle /\ ConfigIdle /\ CacheIdle /\ DownloadIdle /\ RegisterIdle
                /\ ProbeIdle /\ DirIdle
ScannerIdle  == /\ directories = <<>> /\ additional_dirs = <<>>
                /\ all_models = <<>> /\ scan_raised = "none" /\ response = "none"

(* normalize_filename, applied again to its own result *)

MaxNameLen == 4
MaxPasses  == 2
NameChars  == {"a", "B", ".", "_", " ", "/"}

InitNormalize ==
    /\ pc = "normalize"
    /\ filename \in SeqsUpTo(NameChars, MaxNameLen)
    /\ normalized = filename
    /\ passes = 0
    /\ SimIdle /\ TokIdle /\ MatchIdle /\ WfIdle
    /\ AnalyzerIdle /\ CallerIdle /\ ScannerIdle /\ PlumbIdle

NormalizeFilename ==
    /\ pc = "normalize"
    /\ passes < MaxPasses
    /\ normalized' = normalize_filename(normalized)
    /\ passes' = passes + 1
    /\ UNCHANGED <<pc, filename, simVars, tokVars, matchVars, wfVars,
                   analyzerVars, callerVars, scannerVars, plumbVars>>

SpecNormalize == InitNormalize /\ [][NormalizeFilename]_vars

(* calculate_similarity, called again with the arguments exchanged *)

MaxRatioLen == 3
RatioChars  == {"a", "b", "c"}

InitRatio ==
    /\ pc = "ratio"
    /\ str1 \in SeqsUpTo(RatioChars, MaxRatioLen)
    /\ str2 \in SeqsUpTo(RatioChars, MaxRatioLen)
    /\ char_sim = Zero /\ prev_char_sim = Zero /\ final_sim = Zero
    /\ NormIdle /\ TokIdle /\ MatchIdle /\ WfIdle
    /\ AnalyzerIdle /\ CallerIdle /\ ScannerIdle /\ PlumbIdle

CalculateSimilarity ==
    /\ pc = "ratio"
    /\ char_sim' = calculate_similarity(str1, str2)
    /\ pc' = "ratio_done"
    /\ UNCHANGED <<str1, str2, prev_char_sim, final_sim, normVars, tokVars, matchVars, wfVars,
                   analyzerVars, callerVars, scannerVars, plumbVars>>

CalculateSimilaritySwapped ==
    /\ pc = "ratio_done"
    /\ str1' = str2
    /\ str2' = str1
    /\ prev_char_sim' = char_sim
    /\ char_sim' = calculate_similarity(str2, str1)
    /\ pc' = "ratio_swapped"
    /\ UNCHANGED <<final_sim, normVars, tokVars, matchVars, wfVars,
                   analyzerVars, callerVars, scannerVars, plumbVars>>

NextRatio == CalculateSimilarity \/ CalculateSimilaritySwapped

SpecRatio == InitRatio /\ [][NextRatio]_vars

(* calculate_similarity_with_normalization *)

MaxBlendLen == 4
BlendChars  == {"a", ".", "_"}

InitBlend ==
    /\ pc = "blend"
    /\ str1 \in SeqsUpTo(BlendChars, MaxBlendLen)
    /\ str2 \in SeqsUpTo(BlendChars, MaxBlendLen)
    /\ char_sim = Zero /\ prev_char_sim = Zero /\ final_sim = Zero
    /\ NormIdle /\ TokIdle /\ MatchIdle /\ WfIdle
    /\ AnalyzerIdle /\ CallerIdle /\ ScannerIdle /\ PlumbIdle

CalculateSimilarityWithNormalization ==
    /\ pc = "blend"
    /\ final_sim' = calculate_similarity_with_normalization(str1, str2)
    /\ char_sim' = calculate_similarity(normalize_filename(str1), normalize_filename(str2))
    /\ pc' = "blend_done"
    /\ UNCHANGED <<str1, str2, prev_char_sim, normVars, tokVars, matchVars, wfVars,
                   analyzerVars, callerVars, scannerVars, plumbVars>>

SpecBlend == InitBlend /\ [][CalculateSimilarityWithNormalization]_vars

(* calculate_token_similarity, called again after one token was appended  *)
(* to both lists                                                          *)

MaxTokens == 3
TokenPool == {<<"a">>, <<"b">>, <<"1">>}

InitTokens ==
    /\ pc = "tokens"
    /\ tokens1 \in SeqsUpTo(TokenPool, MaxTokens)
    /\ tokens2 \in SeqsUpTo(TokenPool, MaxTokens)
    /\ token_sim = Zero /\ prev_token_sim = Zero
    /\ NormIdle /\ SimIdle /\ MatchIdle /\ WfIdle
    /\ AnalyzerIdle /\ CallerIdle /\ ScannerIdle /\ PlumbIdle

CalculateTokenSimilarity ==
    /\ pc = "tokens"
    /\ token_sim' = calculate_token_similarity(tokens1, tokens2)
    /\ pc' = "tokens_done"
    /\ UNCHANGED <<tokens1, tokens2, prev_token_sim, normVars, simVars, matchVars, wfVars,
                   analyzerVars, callerVars, scannerVars, plumbVars>>

AppendSharedToken ==
    /\ pc = "tokens_done"
    /\ \E t \in TokenPool :
          /\ tokens1' = Append(tokens1, t)
          /\ tokens2' = Append(tokens2, t)
          /\ token_sim' = calculate_token_similarity(Append(tokens1, t), Append(tokens2, t))
    /\ prev_token_sim' = token_sim
    /\ pc' = "tokens_appended"
    /\ UNCHANGED <<normVars, simVars, matchVars, wfVars,
                   analyzerVars, callerVars, scannerVars, plumbVars>>

NextTokens == CalculateTokenSimilarity \/ AppendSharedToken

SpecTokens == InitTokens /\ [][NextTokens]_vars

(* find_matches *)

NameModelUpper == <<"M","O","D","E","L",".","C","K","P","T">>  \* "MODEL.CKPT"
NameModel      == <<"m","o","d","e","l",".","c","k","p","t">>  \* "model.ckpt"
PathModelMixed == <<"/","m","/","M","o","d","e","l",".","c","k","p","t">>  \* "/m/Model.ckpt"
NameSdxlBase10 == <<"s","d","_","x","l","_","b","a","s","e","_","1",".","0",".","s","a","f","e","t","e","n","s","o","r","s">>  \* "sd_xl_base_1.0.safetensors"
NameSdxlBase1  == <<"s","d","_","x","l","_","b","a","s","e","_","1",".","s","a","f","e","t","e","n","s","o","r","s">>  \* "sd_xl_base_1.safetensors"
PathModelV2    == <<"s","u","b","/","m","o","d","e","l","_","v","2",".","c","k","p","t">>  \* "sub/model_v2.ckpt"
RelPathModelV2 == <<"s","u","b","/","m","o","d","e","l","-","v","2",".","c","k","p","t">>  \* "sub/model-v2.ckpt"
NameModelDotV2 == <<"m","o","d","e","l",".","v","2",".","c","k","p","t">>  \* "model.v2.ckpt"

Candidate(fn, path, rel) ==
    [mapping |-> TRUE, filename |-> fn, path |-> path, relative_path |-> rel]

\* candidates find_matches can read
WellFormedCandidates ==
    { Candidate(StrVal(NameModel), Absent, Absent),
      Candidate(Absent, StrVal(PathModelMixed), Absent),
      Candidate(StrVal(NameSdxlBase1), Absent, Absent),
      Candidate(StrVal(<<>>), Absent, StrVal(RelPathModelV2)),
      Candidate(StrVal(NameModelDotV2), Absent, Absent) }

\* entries without a filename, with a filename that is no string, and an
\* entry that is no dictionary
MalformedCandidates ==
    { Candidate(Absent, Absent, Absent),
      Candidate(StrVal(<<>>), StrVal(<<>>), Absent),
      Candidate(IntVal(123), Absent, Absent),
      [mapping |-> FALSE, filename |-> Absent, path |-> Absent, relative_path |-> Absent] }

CandidatePool == WellFormedCandidates \cup MalformedCandidates
TargetPool    == {NameModelUpper, NameSdxlBase10, PathModelV2}
Thresholds    == {Zero, Frac(1, 2), One}

MaxCandidates == 2
MaxResults    == 2

InitMatches ==
    /\ pc = "find_matches"
    /\ target_model \in TargetPool
    /\ candidate_models \in SeqsUpTo(CandidatePool, MaxCandidates)
    /\ threshold \in Thresholds
    /\ max_results \in (-1)..MaxResults
    /\ matches = <<>>
    /\ raised = "none"
    /\ NormIdle /\ SimIdle /\ TokIdle /\ WfIdle
    /\ AnalyzerIdle /\ CallerIdle /\ ScannerIdle /\ PlumbIdle

FindMatches ==
    /\ pc = "find_matches"
    /\ LET res == find_matches(target_model, candidate_models, threshold, max_results)
       IN  /\ matches' = res.matches
           /\ raised' = res.raised
    /\ pc' = "matches_done"
    /\ UNCHANGED <<target_model, candidate_models, threshold, max_results,
                   normVars, simVars, tokVars, wfVars,
                   analyzerVars, callerVars, scannerVars, plumbVars>>

SpecMatches == InitMatches /\ [][FindMatches]_vars

(* detect_workflow_format *)

DocKeys    == {"nodes", "1", "2"}
NodeKeys   == {"class_type", "inputs"}
JsonValues == {JList, JStr, JNull} \cup {JDict(ks) : ks \in SUBSET NodeKeys}

\* the mappings from some of the keys to values
Documents == UNION {[ks -> JsonValues] : ks \in SUBSET DocKeys}

InitDetect ==
    /\ pc = "detect"
    /\ workflow_json \in Documents
    /\ workflow_format = "none"
    /\ NormIdle /\ SimIdle /\ TokIdle /\ MatchIdle
    /\ AnalyzerIdle /\ CallerIdle /\ ScannerIdle /\ PlumbIdle

DetectWorkflowFormat ==
    /\ pc = "detect"
    /\ workflow_format' = detect_workflow_format(workflow_json)
    /\ pc' = "detected"
    /\ UNCHANGED <<workflow_json, normVars, simVars, tokVars, matchVars,
                   analyzerVars, callerVars, scannerVars, plumbVars>>

SpecDetect == InitDetect /\ [][DetectWorkflowFormat]_vars

(* analyze_workflow_models, and identify_missing_models on its result *)

FieldCkptName     == <<"c","k","p","t","_","n","a","m","e">>  \* "ckpt_name"
FieldLoraName     == <<"l","o","r","a","_","n","a","m","e">>  \* "lora_name"
FieldUpperName    == <<"M","y","_","N","A","M","E">>  \* "My_NAME"
FieldUpscaleModel == <<"u","p","s","c","a","l","e","_","m","o","d","e","l">>  \* "upscale_model"
FieldSeed         == <<"s","e","e","d">>  \* "seed"
FieldSteps        == <<"s","t","e","p","s">>  \* "steps"
FieldModel        == <<"m","o","d","e","l">>  \* "model"
ValueMissing      == <<"m","i","s","s","i","n","g",".","s","a","f","e","t","e","n","s","o","r","s">>  \* "missing.safetensors"
ValueFooTxt       == <<"f","o","o",".","t","x","t">>  \* "foo.txt"
ValueBarSafetensors == <<"b","a","r",".","s","a","f","e","t","e","n","s","o","r","s">>  \* "bar.safetensors"
ValueUpperCkpt    == <<"A",".","C","K","P","T">>  \* "A.CKPT"
ValueAPt          == <<"a",".","p","t">>  \* "a.pt"
ValueAPtPadded    == <<" ","a",".","p","t">>  \* " a.pt"
ValueDotPt        == <<".","p","t">>  \* ".pt"
ValuePlain        == <<"a","b","c">>  \* "abc"

\* folder_paths.folder_names_and_paths.keys(), in order
FolderNames == <<"custom_nodes", "checkpoints", "configs", "loras">>

\* the files "a.pt" that may lie in the registered directories
FilePool == { <<"custom_nodes", ValueAPt>>, <<"checkpoints", ValueAPt>>,
              <<"loras", ValueAPt>> }

\* API nodes: the checkpoint loader of Scenario C; a node of no known type
\* with fields that qualify by name (in upper case), by extension, and not
\* at all; a LoRA loader; and nodes whose extraction fails or is skipped
ApiNodePool ==
    { ApiNode(NodeType("CheckpointLoaderSimple"),
              Inputs(<<Field(FieldCkptName, StrVal(ValueMissing))>>)),
      ApiNode(NodeType("KSampler"),
              Inputs(<<Field(FieldUpperName, StrVal(ValuePlain)),
                       Field(FieldSeed, StrVal(ValueAPtPadded)),
                       Field(FieldUpscaleModel, ListVal),
                       Field(FieldSteps, IntVal(5)),
                       Field(FieldModel, StrVal(ValuePlain))>>)),
      ApiNode(NodeType("LoraLoader"),
              Inputs(<<Field(FieldModel, ListVal),
                       Field(FieldLoraName, StrVal(ValueAPt))>>)),
      ApiNode(UnhashableType, Inputs(<<Field(FieldCkptName, StrVal(ValueAPt))>>)),
      ApiNode(NodeType("KSampler"), Items(<<IntVal(1)>>)),
      ApiNode(NoType, Inputs(<<Field(FieldCkptName, StrVal(ValueAPt))>>)),
      ApiNode(NodeType("KSampler"), NoEntry),
      NoApiNode }

\* graph nodes: the node of Scenario D; a LoRA loader; a node without id and
\* type; and nodes whose extraction fails
GraphNodePool ==
    { GraphNode(IntVal(3), NodeType("KSampler"),
                Items(<<StrVal(ValueFooTxt), StrVal(ValueBarSafetensors)>>)),
      GraphNode(IntVal(4), NodeType("LoraLoader"),
                Items(<<StrVal(ValueUpperCkpt), IntVal(5), StrVal(ValueAPt)>>)),
      GraphNode(Absent, NoType,
                Items(<<StrVal(ValueDotPt), ListVal, StrVal(ValueAPtPadded)>>)),
      GraphNode(IntVal(5), NodeType("KSampler"), NumberEntry),
      GraphNode(IntVal(6), UnhashableType, Items(<<StrVal(ValueAPt)>>)),
      NoGraphNode }

SubgraphNodePool ==
    { GraphNode(IntVal(8), NodeType("CheckpointLoader"), Items(<<StrVal(ValueAPt)>>)),
      GraphNode(IntVal(9), NodeType("KSampler"), NumberEntry),
      NoGraphNode }

MaxNodes     == 2
MaxSubgraphs == 1

SubgraphPool ==
    { Subgraph(StrVal(<<"s","1">>), StrVal(<<"S","u","b">>), Items(ns)) :
          ns \in SeqsUpTo(SubgraphNodePool, MaxNodes) }
    \cup { Subgraph(StrVal(<<"s","2">>), NoKey,
                    Items(<<GraphNode(IntVal(8), NodeType("KSampler"),
                                      Items(<<StrVal(ValueAPt)>>))>>)),
           Subgraph(Absent, NoKey,
                    Items(<<GraphNode(IntVal(8), NodeType("KSampler"),
                                      Items(<<StrVal(ValueAPt)>>))>>)),
           Subgraph(StrVal(<<"s","3">>), NoKey, NoEntry),
           Subgraph(StrVal(<<"s","4">>), NoKey, NumberEntry),
           NoSubgraph }

DefinitionsPool ==
    { NoDefinitions, ListDefinitions, Definitions(NoEntry), Definitions(NumberEntry) }
    \cup { Definitions(Items(subs)) : subs \in SeqsUpTo(SubgraphPool, MaxSubgraphs) }

\* the top-level nodes of the documents that have definitions
TopLevelPool ==
    { <<>>,
      <<GraphNode(IntVal(3), NodeType("KSampler"),
                  Items(<<StrVal(ValueFooTxt), StrVal(ValueBarSafetensors)>>))>>,
      <<GraphNode(IntVal(5), NodeType("KSampler"), NumberEntry),
        GraphNode(IntVal(4), NodeType("LoraLoader"),
                  Items(<<StrVal(ValueUpperCkpt), IntVal(5), StrVal(ValueAPt)>>))>> }

\* the entries of an API document, keyed "1", "2", ...
RECURSIVE Keyed(_, _)
Keyed(nodes, k) ==
    IF nodes = <<>> THEN <<>>
    ELSE <<Entry(<<ToString(k)>>, Head(nodes))>> \o Keyed(Tail(nodes), k + 1)

WorkflowPool ==
    { NonMapping("list"), NonMapping("str"), NonMapping("null") }
    \cup { Document(nodes, NoDefinitions, Keyed(ns, 1)) :
              nodes \in {NoEntry, NumberEntry},
              ns \in SeqsUpTo(ApiNodePool, MaxNodes) }
    \cup { Document(Items(ns), NoDefinitions, <<>>) :
              ns \in SeqsUpTo(GraphNodePool, MaxNodes) }
    \cup { Document(Items(ns), definitions, <<>>) :
              ns \in TopLevelPool, definitions \in DefinitionsPool }

InitAnalyze ==
    /\ pc = "analyze"
    /\ workflow_json \in WorkflowPool
    /\ workflow_format = "none"
    /\ importable \in BOOLEAN
    /\ folder_paths \in (IF importable THEN {"None", "module"} ELSE {"None"})
    /\ registry_files \in (IF importable THEN SUBSET FilePool ELSE {{}})
    /\ all_model_refs = <<>>
    /\ analyze_raised = "none"
    /\ workflow_models = <<>>
    /\ missing = <<>>
    /\ NormIdle /\ SimIdle /\ TokIdle /\ MatchIdle /\ CallerIdle /\ ScannerIdle /\ PlumbIdle

\* folder_paths as the call finds it, the lazy import of lines 87-93 included
CurrentRegistry ==
    Registry(folder_paths # "None" \/ importable, FolderNames, registry_files)

\* whether a resolution got as far as the lazy import (line 87)
ReachedImport(refs) ==
    \E k \in 1..Len(refs) : strip(refs[k].original_path.s) # <<>>

AnalyzeWorkflowModels ==
    /\ pc = "analyze"
    /\ LET res == analyze_workflow_models(workflow_json, CurrentRegistry)
       IN  /\ all_model_refs' = res.refs
           /\ analyze_raised' = res.raised
           /\ folder_paths' = IF importable /\ ReachedImport(res.refs)
                              THEN "module" ELSE folder_paths
    /\ workflow_format' = DetectFormat(workflow_json).format
    /\ pc' = "analyzed"
    /\ UNCHANGED <<workflow_json, importable, registry_files, workflow_models, missing,
                   normVars, simVars, tokVars, matchVars, callerVars, scannerVars, plumbVars>>

IdentifyMissingModels ==
    /\ pc = "analyzed"
    /\ analyze_raised = "none"
    /\ workflow_models' = all_model_refs
    /\ missing' = identify_missing_models(all_model_refs)
    /\ pc' = "identified"
    /\ UNCHANGED <<workflow_json, workflow_format, folder_paths, importable, registry_files,
                   all_model_refs, analyze_raised,
                   normVars, simVars, tokVars, matchVars, callerVars, scannerVars, plumbVars>>

NextAnalyze == AnalyzeWorkflowModels \/ IdentifyMissingModels

SpecAnalyze == InitAnalyze /\ [][NextAnalyze]_vars

(* analyze_workflow_models calls that run interleaved, each on its own     *)
(* document.  A call's references are those of its document in order; each *)
(* is resolved by try_resolve_model_path, whose statements around the      *)
(* module-level handle are separate steps.                                 *)

MaxCallers == 2

CallerWorkflowPool ==
    { Document(NoEntry, NoDefinitions,
               Keyed(<<ApiNode(NodeType("LoraLoader"),
                               Inputs(<<Field(FieldLoraName, StrVal(ValueAPt))>>))>>, 1)),
      Document(Items(<<GraphNode(IntVal(4), NodeType("KSampler"),
                                 Items(<<StrVal(ValueAPt), StrVal(ValueBarSafetensors)>>))>>),
               NoDefinitions, <<>>),
      Document(Items(<<GraphNode(IntVal(4), NodeType("LoraLoader"),
                                 Items(<<StrVal(ValueAPtPadded)>>)),
                       NoGraphNode>>),
               NoDefinitions, <<>>) }

CallerFiles == { <<"checkpoints", ValueAPt>>, <<"loras", ValueAPt>> }

\* the references of a document before any registry is consulted, and the
\* exception that will leave the call
Unresolved(document) ==
    analyze_workflow_models(document, Registry(FALSE, FolderNames, {}))

Caller(document) ==
    [pc |-> "start", document |-> document, fp |-> "None",
     refs |-> <<>>, raised |-> "none"]

InitConcurrent ==
    /\ pc = "concurrent"
    /\ importable \in BOOLEAN
    /\ folder_paths \in (IF importable THEN {"None", "module"} ELSE {"None"})
    /\ registry_files = (IF importable THEN CallerFiles ELSE {})
    /\ callers \in [1..MaxCallers -> {Caller(d) : d \in CallerWorkflowPool}]
    /\ workflow_json = <<>> /\ workflow_format = "none"
    /\ all_model_refs = <<>> /\ analyze_raised = "none"
    /\ workflow_models = <<>> /\ missing = <<>>
    /\ NormIdle /\ SimIdle /\ TokIdle /\ MatchIdle /\ ScannerIdle /\ PlumbIdle

\* the reference the caller resolves next
NextReference(c) == Unresolved(callers[c].document).refs[Len(callers[c].refs) + 1]

ConcurrentUnchanged ==
    UNCHANGED <<pc, workflow_json, workflow_format, importable, registry_files,
                all_model_refs, analyze_raised, workflow_models, missing,
                normVars, simVars, tokVars, matchVars, scannerVars, plumbVars>>

\* the caller appends the reference and goes on to the next one
Appended(c, ref) ==
    callers' = [callers EXCEPT ![c].refs = Append(@, ref), ![c].pc = "start"]

\* the call ends: with its list, or with the exception of its document
Finish(c) ==
    /\ callers[c].pc = "start"
    /\ Len(callers[c].refs) = Len(Unresolved(callers[c].document).refs)
    /\ callers' = [callers EXCEPT ![c].pc = "done",
                                  ![c].raised = Unresolved(callers[c].document).raised]
    /\ UNCHANGED folder_paths
    /\ ConcurrentUnchanged

\* lines 79-87: a value that is blank resolves to None at once; otherwise
\* the handle is checked
CheckHandle(c) ==
    /\ callers[c].pc = "start"
    /\ Len(callers[c].refs) < Len(Unresolved(callers[c].document).refs)
    /\ IF strip(NextReference(c).original_path.s) = <<>>
       THEN /\ Appended(c, NextReference(c))
            /\ UNCHANGED folder_paths
       ELSE /\ folder_paths' = handle_after_check(folder_paths)
            /\ callers' = [callers EXCEPT ![c].pc =
                              IF folder_paths = "None" THEN "import" ELSE "probe"]
    /\ ConcurrentUnchanged

\* lines 88-93: the import; on ImportError the resolution returns None
ImportFolderPaths(c) ==
    /\ callers[c].pc = "import"
    /\ LET fp == import_folder_paths(importable)
       IN  IF fp = "ImportError"
           THEN Appended(c, NextReference(c))
           ELSE callers' = [callers EXCEPT ![c].fp = fp, ![c].pc = "assign"]
    /\ UNCHANGED folder_paths
    /\ ConcurrentUnchanged

\* line 90: folder_paths = fp
AssignHandle(c) ==
    /\ callers[c].pc = "assign"
    /\ folder_paths' = callers[c].fp
    /\ callers' = [callers EXCEPT ![c].pc = "probe"]
    /\ ConcurrentUnchanged

\* lines 96-111 and the reference built from the result
ProbeCategoriesStep(c) ==
    /\ callers[c].pc = "probe"
    /\ LET ref == NextReference(c)
       IN  Appended(c, ResolvedReference(ref,
               resolve_with_handle(ref.original_path,
                                   categories_to_try(CategoryHint(ref.node_type)),
                                   folder_paths, FolderNames, registry_files)))
    /\ UNCHANGED folder_paths
    /\ ConcurrentUnchanged

NextConcurrent ==
    \E c \in 1..MaxCallers :
        \/ CheckHandle(c)
        \/ ImportFolderPaths(c)
        \/ AssignHandle(c)
        \/ ProbeCategoriesStep(c)
        \/ Finish(c)

SpecConcurrent == InitConcurrent /\ [][NextConcurrent]_vars

(* scan_all_directories, get_model_files and the refresh handler *)

DirModels  == <<<<"m">>>>                           \* "/m"
DirSub     == <<<<"m">>, <<"s","u","b">>>>           \* "/m/sub"
DirOther   == <<<<"n">>>>                           \* "/n"
DirNowhere == <<<<"x">>>>                           \* "/x", which does not exist

\* the files on disk, in walk order
FileSystem ==
    << DirModels \o <<ValueAPt>>,
       DirModels \o <<ValueFooTxt>>,
       DirSub \o <<ValueUpperCkpt>>,
       DirModels \o <<<<".","g","i","t">>, ValueAPt>>,
       DirOther \o <<ValueBarSafetensors>> >>

DirectoryPool == {DirModels, DirSub, DirOther, DirNowhere}

MaxPaths == 2

\* some registrations of three categories
DirectoriesPool ==
    { << CategoryDirectories("checkpoints", ps, {}),
         CategoryDirectories("custom_nodes", <<DirOther>>, {}),
         CategoryDirectories("loras", qs, {<<".","p","t">>}) >> :
          ps \in SeqsUpTo(DirectoryPool, MaxPaths),
          qs \in SeqsUpTo(DirectoryPool, 1) }

InitScan ==
    /\ pc = "scan"
    /\ directories \in DirectoriesPool
    /\ additional_dirs \in SeqsUpTo(DirectoryPool \ {DirNowhere}, 1)
    /\ all_models = <<>>
    /\ scan_raised = "none"
    /\ response = "none"
    /\ NormIdle /\ SimIdle /\ TokIdle /\ MatchIdle /\ WfIdle
    /\ AnalyzerIdle /\ CallerIdle /\ PlumbIdle

ScanUnchanged ==
    UNCHANGED <<directories, additional_dirs,
                normVars, simVars, tokVars, matchVars, wfVars, analyzerVars, callerVars,
                plumbVars>>

\* a direct call scan_all_directories()
ScanAllDirectories ==
    /\ pc = "scan"
    /\ LET res == scan_all_directories({}, FileSystem, directories, additional_dirs)
       IN  all_models' = res.models /\ scan_raised' = res.raised
    /\ pc' = "scanned"
    /\ UNCHANGED response
    /\ ScanUnchanged

GetModelFiles ==
    /\ pc = "scan"
    /\ \E use_cache \in BOOLEAN :
          LET res == get_model_files(use_cache, FileSystem, directories, additional_dirs)
          IN  all_models' = res.models /\ scan_raised' = res.raised
    /\ pc' = "got_model_files"
    /\ UNCHANGED response
    /\ ScanUnchanged

RefreshCache ==
    /\ pc = "scan"
    /\ LET res == refresh_cache(FileSystem, directories, additional_dirs)
       IN  /\ response' = [status |-> res.status, success |-> res.success,
                           models_found |-> Len(res.models)]
           /\ all_models' = res.models
    /\ pc' = "refreshed"
    /\ UNCHANGED scan_raised
    /\ ScanUnchanged

NextScan == ScanAllDirectories \/ GetModelFiles \/ RefreshCache

SpecScan == InitScan /\ [][NextScan]_vars

(* merge_models_with_cache *)

PathA        == <<"/","m","/","a",".","p","t">>                  \* "/m/a.pt"
PathADotted  == <<"/","m","/",".","/","a",".","p","t">>          \* "/m/./a.pt"
PathBRel     == <<"m","/","b",".","p","t">>                      \* "m/b.pt"
PathGone     == <<"/","g","o","n","e",".","p","t">>              \* "/gone.pt"

\* the working directory, and what exists: it, "/m/a.pt" and "/w/m/b.pt"
WorkingDirectory == <<"/","w">>
Disk == { WorkingDirectory, PathA, WorkingDirectory \o <<"/">> \o PathBRel }

ScannedPool ==
    { CacheModel(<<"a">>, StrVal(PathA)), CacheModel(<<"a">>, StrVal(PathADotted)),
      CacheModel(<<"b">>, StrVal(PathBRel)), CacheModel(<<"n">>, NoKey) }

CachedPool ==
    { CacheModel(<<"a">>, StrVal(PathA)), CacheModel(<<"a">>, StrVal(PathADotted)),
      CacheModel(<<"b">>, StrVal(PathBRel)), CacheModel(<<"g">>, StrVal(PathGone)),
      CacheModel(<<"n">>, NoKey), CacheModel(<<"e">>, StrVal(<<>>)),
      CacheModel(<<"x">>, Absent) }

MaxModels == 2

InitMerge ==
    /\ pc = "merge"
    /\ scanned_models \in SeqsUpTo(ScannedPool, MaxModels)
    /\ cached_models \in SeqsUpTo(CachedPool, MaxModels)
    /\ merged = <<>>
    /\ merge_raised = "none"
    /\ NormIdle /\ SimIdle /\ TokIdle /\ MatchIdle /\ WfIdle
    /\ AnalyzerIdle /\ CallerIdle /\ ScannerIdle /\ ConfigIdle /\ CacheIdle
    /\ DownloadIdle /\ RegisterIdle /\ ProbeIdle /\ DirIdle

MergeModelsWithCache ==
    /\ pc = "merge"
    /\ LET res == merge_models_with_cache(scanned_models, cached_models, Disk, WorkingDirectory)
       IN  merged' = res.merged /\ merge_raised' = res.raised
    /\ pc' = "merged"
    /\ UNCHANGED <<scanned_models, cached_models, configVars, cacheVars, downloadVars, registerVars, probeVars, dirVars,
                   normVars, simVars, tokVars, matchVars, wfVars,
                   analyzerVars, callerVars, scannerVars>>

NextMerge == MergeModelsWithCache

SpecMerge == InitMerge /\ [][NextMerge]_vars

(* load_config *)

\* the sections a user file may hold: some of the keys, with values that
\* differ from the defaults
UserCacheKeys    == {"enabled", "auto_refresh", "refresh_interval_hours", "extra"}
UserScanningKeys == {"max_depth", "skip_hidden"}

UserValue(key) ==
    IF key \in {"enabled", "auto_refresh", "skip_hidden"} THEN BoolVal(FALSE)
    ELSE IF key = "extra" THEN StrVal(<<"x">>)
    ELSE IntVal(3)

UserSection(keys) == DictVal([k \in keys |-> UserValue(k)])

\* what the config file holds: nothing (no file), null, a list, or a mapping
ConfigFilePool ==
    {NoKey, Absent, ListVal}
    \cup { DictVal([k \in top |->
                      IF k = "cache" THEN cache
                      ELSE IF k = "scanning" THEN scanning
                      ELSE StrVal(<<"/","x">>)]) :
             top \in SUBSET {"cache", "scanning", "additional_directories"},
             cache \in {UserSection(keys) : keys \in SUBSET UserCacheKeys}
                       \cup {Absent, IntVal(5)},
             scanning \in {UserSection(keys) : keys \in SUBSET UserScanningKeys}
                          \cup {IntVal(5)} }

InitConfig ==
    /\ pc = "load"
    /\ config_file \in ConfigFilePool
    /\ configuration = << >>
    /\ NormIdle /\ SimIdle /\ TokIdle /\ MatchIdle /\ WfIdle
    /\ AnalyzerIdle /\ CallerIdle /\ ScannerIdle /\ MergeIdle /\ CacheIdle
    /\ DownloadIdle /\ RegisterIdle /\ ProbeIdle /\ DirIdle

LoadConfig ==
    /\ pc = "load"
    /\ configuration' = load_config(config_file)
    /\ pc' = "loaded"
    /\ UNCHANGED <<config_file, mergeVars, cacheVars, downloadVars, registerVars, probeVars, dirVars,
                   normVars, simVars, tokVars, matchVars, wfVars,
                   analyzerVars, callerVars, scannerVars>>

NextConfig == LoadConfig

SpecConfig == InitConfig /\ [][NextConfig]_vars

(* concurrent save_cache and load_cache calls *)

MaxSavers == 2
MaxBlocks == 2

\* the complete document of a writer (0: an earlier save)
CacheDocument(w) == [k \in 1..MaxBlocks |-> <<w, k>>]

Saver(serializable) ==
    [pc |-> "start", f |-> 0, offset |-> 0, serializable |-> serializable,
     returned |-> "none"]

InitCache ==
    /\ pc = "cache"
    /\ cache_files \in { [inodes |-> <<>>, cache_path |-> 0, temp_path |-> 0],
                   [inodes |-> <<CacheDocument(0)>>, cache_path |-> 1, temp_path |-> 0] }
    /\ savers \in [1..MaxSavers -> {Saver(b) : b \in BOOLEAN}]
    /\ loaded = <<>>
    /\ NormIdle /\ SimIdle /\ TokIdle /\ MatchIdle /\ WfIdle
    /\ AnalyzerIdle /\ CallerIdle /\ ScannerIdle /\ MergeIdle /\ ConfigIdle
    /\ DownloadIdle /\ RegisterIdle /\ ProbeIdle /\ DirIdle

CacheUnchanged ==
    UNCHANGED <<pc, mergeVars, configVars, downloadVars, registerVars, probeVars, dirVars,
                normVars, simVars, tokVars, matchVars, wfVars,
                analyzerVars, callerVars, scannerVars>>

\* line 121: open(temp_path, 'w') truncates the file of that name, or
\* creates it
OpenTemp(s) ==
    /\ savers[s].pc = "start"
    /\ IF cache_files.temp_path # 0
       THEN /\ cache_files' =
                  [cache_files EXCEPT !.inodes[cache_files.temp_path] = <<>>]
            /\ savers' = [savers EXCEPT ![s].pc = "dump", ![s].f = cache_files.temp_path]
       ELSE /\ cache_files' = [cache_files EXCEPT !.inodes = Append(@, <<>>),
                                      !.temp_path = Len(cache_files.inodes) + 1]
            /\ savers' = [savers EXCEPT ![s].pc = "dump",
                                        ![s].f = Len(cache_files.inodes) + 1]
    /\ UNCHANGED loaded
    /\ CacheUnchanged

\* line 122: json.dump writes the next block of the document
DumpBlock(s) ==
    /\ savers[s].pc = "dump"
    /\ savers[s].serializable
    /\ savers[s].offset < MaxBlocks
    /\ LET \* f.write at the offset of the file object; what lies between
           \* the end of the file and the offset is a hole
           WriteAt(content, offset, block) ==
               [k \in 1..(IF Len(content) > offset THEN Len(content) ELSE offset + 1) |->
                   IF k = offset + 1 THEN block
                   ELSE IF k <= Len(content) THEN content[k]
                   ELSE <<0, 0>>]
       IN  cache_files' = [cache_files EXCEPT !.inodes[savers[s].f] =
                              WriteAt(@, savers[s].offset, <<s, savers[s].offset + 1>>)]
    /\ savers' = [savers EXCEPT ![s].offset = @ + 1]
    /\ UNCHANGED loaded
    /\ CacheUnchanged

\* lines 122, 130-132: json.dump raises on a value it cannot serialize
DumpFails(s) ==
    /\ savers[s].pc = "dump"
    /\ ~savers[s].serializable
    /\ savers' = [savers EXCEPT ![s].pc = "done", ![s].returned = "False"]
    /\ UNCHANGED <<cache_files, loaded>>
    /\ CacheUnchanged

\* lines 125-132: temp_path.replace(cache_path); FileNotFoundError when the
\* name temp_path is gone
ReplaceCache(s) ==
    /\ savers[s].pc = "dump"
    /\ savers[s].offset = MaxBlocks
    /\ IF cache_files.temp_path = 0
       THEN /\ savers' = [savers EXCEPT ![s].pc = "done", ![s].returned = "False"]
            /\ UNCHANGED cache_files
       ELSE /\ cache_files' = [cache_files EXCEPT !.cache_path = cache_files.temp_path,
                                                  !.temp_path = 0]
            /\ savers' = [savers EXCEPT ![s].pc = "done", ![s].returned = "True"]
    /\ UNCHANGED loaded
    /\ CacheUnchanged

\* a load_cache call
LoadCache ==
    /\ pc = "cache"
    /\ loaded' = load_cache(cache_files, MaxBlocks)
    /\ UNCHANGED <<cache_files, savers>>
    /\ CacheUnchanged

NextCache ==
    \/ \E s \in 1..MaxSavers : OpenTemp(s) \/ DumpBlock(s) \/ DumpFails(s) \/ ReplaceCache(s)
    \/ LoadCache

SpecCache == InitCache /\ [][NextCache]_vars

(* download_model, cancel_download and the download tasks *)

MaxDownloads == 2
MaxChunks    == 2

DownloadIds   == {"d1", "d2"}
DownloadNames == {"m.pt"}

\* a complete transfer, one that ends early, one that breaks off, one
\* without content-length, and one refused by the server
TransferPool ==
    { Transfer(200, MaxChunks, MaxChunks, FALSE),
      Transfer(200, MaxChunks, MaxChunks - 1, FALSE),
      Transfer(200, MaxChunks, MaxChunks - 1, TRUE),
      Transfer(200, 0, MaxChunks - 1, FALSE),
      Transfer(404, 0, 0, FALSE) }

InitDownload ==
    /\ pc = "download"
    /\ active_downloads = << >>
    /\ tasks = <<>>
    /\ download_dir = [inodes |-> <<>>,
                       names |-> [n \in DownloadNames \X {"dest", "tmp"} |-> 0]]
    /\ last_response = [handler |-> "none"]
    /\ NormIdle /\ SimIdle /\ TokIdle /\ MatchIdle /\ WfIdle
    /\ AnalyzerIdle /\ CallerIdle /\ ScannerIdle /\ MergeIdle /\ ConfigIdle /\ CacheIdle
    /\ RegisterIdle /\ ProbeIdle /\ DirIdle

DownloadUnchanged ==
    UNCHANGED <<pc, mergeVars, configVars, cacheVars, registerVars, probeVars, dirVars,
                normVars, simVars, tokVars, matchVars, wfVars,
                analyzerVars, callerVars, scannerVars>>

\* lines 148-195: a download request
DownloadModel ==
    /\ pc = "download"
    /\ Len(tasks) < MaxDownloads
    /\ \E download_id \in DownloadIds \cup {""}, name \in DownloadNames,
          transfer \in TransferPool :
          LET \* lines 177-179: the task created for the download
              DownloadTask ==
                  [download_id |-> download_id, filename |-> name, transfer |-> transfer,
                   pc |-> "get", f |-> 0, downloaded |-> 0, total_size |-> 0,
                   cancel_requested |-> FALSE, outcome |-> "none", temp_left |-> FALSE]
              \* lines 182-186
              DownloadInfo ==
                  [task |-> Len(tasks) + 1, cancelled |-> FALSE,
                   progress |-> [downloaded |-> 0, total |-> 0]]
          IN
          IF download_id = ""
          THEN /\ last_response' = [handler |-> "download_model", status |-> 400]
               /\ UNCHANGED <<active_downloads, tasks>>
          ELSE IF download_dir.names[<<name, "dest">>] # 0
          THEN /\ last_response' = [handler |-> "download_model", status |-> 409]
               /\ UNCHANGED <<active_downloads, tasks>>
          ELSE /\ tasks' = Append(tasks, DownloadTask)
               /\ active_downloads' =
                     [d \in DOMAIN active_downloads \cup {download_id} |->
                         IF d = download_id THEN DownloadInfo
                         ELSE active_downloads[d]]
               /\ last_response' = [handler |-> "download_model", status |-> 200]
    /\ UNCHANGED download_dir
    /\ DownloadUnchanged

\* lines 233-248, reached through the route of line 325: the route names
\* its path parameter "id", and the handler asks match_info for
\* "download_id"
CancelDownload ==
    /\ pc = "download"
    /\ \E requested \in DownloadIds :
          LET route_parameter == "id"
              \* request.match_info.get(parameter) for a request the route matched
              MatchInfoGet(parameter) ==
                  IF parameter = route_parameter THEN requested ELSE "None"
              download_id == MatchInfoGet("download_id")
              active == requested \in DOMAIN active_downloads
          IN  IF download_id \notin DOMAIN active_downloads
              THEN /\ last_response' = [handler |-> "cancel_download", status |-> 404,
                                        requested |-> requested, active |-> active,
                                        cancelled |-> FALSE, task_cancelled |-> FALSE]
                   /\ UNCHANGED <<active_downloads, tasks>>
              ELSE /\ active_downloads' = [active_downloads EXCEPT ![download_id].cancelled = TRUE]
                   /\ tasks' = [tasks EXCEPT ![active_downloads[download_id].task] =
                                   IF @.pc = "done" THEN @
                                   ELSE [@ EXCEPT !.cancel_requested = TRUE]]
                   /\ last_response' = [handler |-> "cancel_download", status |-> 200,
                                        requested |-> requested, active |-> active,
                                        cancelled |-> TRUE, task_cancelled |-> TRUE]
    /\ UNCHANGED download_dir
    /\ DownloadUnchanged

\* the event loop cancels a task that has not ended (Task.cancel())
CancelTask(t) ==
    /\ tasks[t].pc # "done"
    /\ ~tasks[t].cancel_requested
    /\ tasks' = [tasks EXCEPT ![t].cancel_requested = TRUE]
    /\ UNCHANGED <<active_downloads, download_dir, last_response>>
    /\ DownloadUnchanged

\* the task ends; temp_left tells whether the temporary file it opened is
\* still in the directory
Ended(t, outcome, dir) ==
    tasks' = [tasks EXCEPT ![t].pc = "done", ![t].outcome = outcome,
                           ![t].temp_left =
                               /\ tasks[t].f # 0
                               /\ dir.names[<<tasks[t].filename, "tmp">>] = tasks[t].f]

\* lines 256-269: the response arrives; a status other than 200 raises,
\* otherwise the temporary file is opened for writing, which truncates the
\* file of that name or creates it
BeginTransfer(t) ==
    /\ tasks[t].pc = "get"
    /\ ~tasks[t].cancel_requested
    /\ LET task == tasks[t]
           temp == <<task.filename, "tmp">>
       IN  IF task.transfer.status # 200
           THEN /\ download_dir' = Unlinked(download_dir, task.filename)
                /\ Ended(t, "failed", download_dir')
                /\ UNCHANGED active_downloads
           ELSE /\ IF download_dir.names[temp] # 0
                   THEN /\ download_dir' =
                              [download_dir EXCEPT !.inodes[download_dir.names[temp]] = <<>>]
                        /\ tasks' = [tasks EXCEPT ![t].pc = "transfer",
                                                  ![t].f = download_dir.names[temp],
                                                  ![t].total_size = task.transfer.total]
                   ELSE /\ download_dir' =
                              [download_dir EXCEPT !.inodes = Append(@, <<>>),
                                                   !.names[temp] = Len(download_dir.inodes) + 1]
                        /\ tasks' = [tasks EXCEPT ![t].pc = "transfer",
                                                  ![t].f = Len(download_dir.inodes) + 1,
                                                  ![t].total_size = task.transfer.total]
                /\ active_downloads' =
                      IF task.download_id \in DOMAIN active_downloads
                      THEN [active_downloads EXCEPT
                               ![task.download_id].progress.total = task.transfer.total]
                      ELSE active_downloads
    /\ UNCHANGED last_response
    /\ DownloadUnchanged

\* lines 270-288: a chunk arrives; the task stops when its download is
\* marked cancelled, otherwise it writes the chunk at its offset
WriteChunk(t) ==
    /\ tasks[t].pc = "transfer"
    /\ ~tasks[t].cancel_requested
    /\ tasks[t].downloaded < tasks[t].transfer.sends
    /\ LET task == tasks[t]
           offset == task.downloaded
       IN  IF /\ task.download_id \in DOMAIN active_downloads
              /\ active_downloads[task.download_id].cancelled
           THEN /\ download_dir' = Unlinked(download_dir, task.filename)
                /\ Ended(t, "cancelled", download_dir')
                /\ UNCHANGED active_downloads
           ELSE /\ download_dir' =
                      [download_dir EXCEPT !.inodes[task.f] =
                          [k \in 1..(IF Len(@) > offset THEN Len(@) ELSE offset + 1) |->
                              IF k = offset + 1 THEN <<t, offset + 1>>
                              ELSE IF k <= Len(@) THEN @[k]
                              ELSE <<0, 0>>]]
                /\ tasks' = [tasks EXCEPT ![t].downloaded = offset + 1]
                /\ active_downloads' =
                      IF task.download_id \in DOMAIN active_downloads
                      THEN [active_downloads EXCEPT
                               ![task.download_id].progress =
                                   [downloaded |-> offset + 1, total |-> task.total_size]]
                      ELSE active_downloads
    /\ UNCHANGED last_response
    /\ DownloadUnchanged

\* lines 289-313: the stream ends or breaks off; the temporary file is
\* renamed when the download is complete, and removed otherwise
EndTransfer(t) ==
    /\ tasks[t].pc = "transfer"
    /\ ~tasks[t].cancel_requested
    /\ tasks[t].downloaded = tasks[t].transfer.sends
    /\ LET task == tasks[t]
           temp == <<task.filename, "tmp">>
           dest == <<task.filename, "dest">>
       IN  IF task.transfer.drops
           THEN /\ download_dir' = Unlinked(download_dir, task.filename)
                /\ Ended(t, "failed", download_dir')
           ELSE IF task.downloaded = task.total_size \/ task.total_size = 0
           THEN IF download_dir.names[temp] = 0
                THEN \* rename raises FileNotFoundError
                     /\ UNCHANGED download_dir
                     /\ Ended(t, "failed", download_dir)
                ELSE /\ download_dir' =
                           [download_dir EXCEPT !.names[dest] = download_dir.names[temp],
                                                !.names[temp] = 0]
                     /\ Ended(t, "completed", download_dir')
           ELSE /\ download_dir' = Unlinked(download_dir, task.filename)
                /\ Ended(t, "failed", download_dir')
    /\ UNCHANGED <<active_downloads, last_response>>
    /\ DownloadUnchanged

\* lines 302-307: CancelledError is raised in the task where it waits; a
\* task that has not run yet ends without entering the try
CancelledErrorRaised(t) ==
    /\ tasks[t].pc \in {"get", "transfer"}
    /\ tasks[t].cancel_requested
    /\ \E started \in (IF tasks[t].pc = "get" THEN BOOLEAN ELSE {TRUE}) :
          /\ download_dir' = IF started THEN Unlinked(download_dir, tasks[t].filename)
                             ELSE download_dir
          /\ Ended(t, "cancelled", download_dir')
    /\ UNCHANGED <<active_downloads, last_response>>
    /\ DownloadUnchanged

NextDownload ==
    \/ DownloadModel
    \/ CancelDownload
    \/ \E t \in 1..Len(tasks) : CancelTask(t)
    \/ \E t \in 1..Len(tasks) : BeginTransfer(t)
    \/ \E t \in 1..Len(tasks) : WriteChunk(t)
    \/ \E t \in 1..Len(tasks) : EndTransfer(t)
    \/ \E t \in 1..Len(tasks) : CancelledErrorRaised(t)

SpecDownload == InitDownload /\ [][NextDownload]_vars

(* The registration at import time and the retry thread *)

max_attempts == 30
MaxFailures  == 2

\* the calls that can be made: at most MaxFailures calls have an add that
\* raises after the first route
RouterStates ==
    { <<ready, fail_at>> \in BOOLEAN \X ({0} \cup 2..NumRoutes) :
          fail_at # 0 => ready /\ failures < MaxFailures }

InitRegister ==
    /\ pc = "import"
    /\ router_routes = <<>>
    /\ routes_registered = FALSE
    /\ attempt = 0
    /\ failures = 0
    /\ last_call = [called |-> FALSE]
    /\ NormIdle /\ SimIdle /\ TokIdle /\ MatchIdle /\ WfIdle
    /\ AnalyzerIdle /\ CallerIdle /\ ScannerIdle
    /\ MergeIdle /\ ConfigIdle /\ CacheIdle /\ DownloadIdle /\ ProbeIdle /\ DirIdle

RegisterUnchanged ==
    UNCHANGED <<mergeVars, configVars, cacheVars, downloadVars, probeVars, dirVars,
                normVars, simVars, tokVars, matchVars, wfVars,
                analyzerVars, callerVars, scannerVars>>

\* lines 359-366: the attempt at import time; the thread is started when it
\* fails
ImportModule ==
    /\ pc = "import"
    /\ \E state \in RouterStates :
          /\ register_api_routes(state[1], state[2])
          /\ failures' = IF state[2] # 0 /\ ~routes_registered THEN failures + 1 ELSE failures
    /\ pc' = IF last_call'.returned THEN "finished" ELSE "thread"
    /\ UNCHANGED attempt
    /\ RegisterUnchanged

\* lines 336-356: one turn of the loop of delayed_registration, or its end
DelayedRegistration ==
    /\ pc = "thread"
    /\ IF attempt < max_attempts /\ ~routes_registered
       THEN /\ attempt' = attempt + 1
            /\ \E state \in RouterStates :
                  /\ register_api_routes(state[1], state[2])
                  /\ failures' = IF state[2] # 0 /\ ~routes_registered
                                 THEN failures + 1 ELSE failures
            /\ pc' = IF last_call'.returned THEN "finished" ELSE "thread"
       ELSE /\ pc' = "finished"
            /\ UNCHANGED <<attempt, router_routes, routes_registered, failures, last_call>>
    /\ RegisterUnchanged

\* lines 38-47: another call once the thread is gone
RegisterAgain ==
    /\ pc = "finished"
    /\ \E state \in RouterStates :
          /\ register_api_routes(state[1], state[2])
          /\ failures' = IF state[2] # 0 /\ ~routes_registered THEN failures + 1 ELSE failures
    /\ UNCHANGED <<pc, attempt>>
    /\ RegisterUnchanged

NextRegister ==
    \/ ImportModule
    \/ DelayedRegistration
    \/ RegisterAgain

SpecRegister == InitRegister /\ [][NextRegister]_vars

(* The resolution of one reference while files come and go: the probe of   *)
(* try_resolve_model_path and the second os.path.exists of its caller are  *)
(* two moments, and other processes create and delete files in between.    *)

MaxReferences == 2
MaxChanges    == 2

ProbeNames == <<"checkpoints", "loras">>
ProbeHints == {"", "checkpoints", "loras"}

InitProbe ==
    /\ pc = "probe"
    /\ probe_files \in SUBSET FilePool
    /\ probe = [hint |-> "", resolved |-> try_resolve_model_path(Absent, AllCategories,
                                              Registry(TRUE, ProbeNames, {}))]
    /\ references = <<>>
    /\ changes = 0
    /\ NormIdle /\ SimIdle /\ TokIdle /\ MatchIdle /\ WfIdle
    /\ AnalyzerIdle /\ CallerIdle /\ ScannerIdle
    /\ MergeIdle /\ ConfigIdle /\ CacheIdle /\ DownloadIdle /\ RegisterIdle /\ DirIdle

ProbeUnchanged ==
    UNCHANGED <<mergeVars, configVars, cacheVars, downloadVars, registerVars, dirVars,
                normVars, simVars, tokVars, matchVars, wfVars,
                analyzerVars, callerVars, scannerVars>>

\* lines 174-175 (and 227-228) with lines 97-111: the probe for the value
\* "a.pt" of a field whose node type gives the category hint
TryResolve ==
    /\ pc = "probe"
    /\ Len(references) < MaxReferences
    /\ \E hint \in ProbeHints :
          probe' = [hint |-> hint,
                    resolved |-> try_resolve_model_path(StrVal(ValueAPt),
                                     categories_to_try(hint),
                                     Registry(TRUE, ProbeNames, probe_files))]
    /\ pc' = "resolved"
    /\ UNCHANGED <<probe_files, references, changes>>
    /\ ProbeUnchanged

\* lines 177-195 (and 230-246): the second existence check and the
\* reference
AppendReference ==
    /\ pc = "resolved"
    /\ references' = Append(references,
          IF probe.resolved.found
          THEN [original_path |-> ValueAPt,
                category  |-> probe.resolved.category,
                full_path |-> probe.resolved.full_path,
                exists    |-> <<probe.resolved.full_path.category,
                                probe.resolved.full_path.name>> \in probe_files]
          ELSE [original_path |-> ValueAPt,
                category  |-> IF probe.hint # "" THEN probe.hint ELSE "unknown",
                full_path |-> NoPath,
                exists    |-> FALSE])
    /\ pc' = "probe"
    /\ UNCHANGED <<probe_files, probe, changes>>
    /\ ProbeUnchanged

\* another process creates or deletes a file
FilesChange ==
    /\ changes < MaxChanges
    /\ \E file \in FilePool :
          probe_files' = IF file \in probe_files THEN probe_files \ {file}
                         ELSE probe_files \cup {file}
    /\ changes' = changes + 1
    /\ UNCHANGED <<pc, probe, references>>
    /\ ProbeUnchanged

NextProbe ==
    \/ TryResolve
    \/ AppendReference
    \/ FilesChange

SpecProbe == InitProbe /\ [][NextProbe]_vars

(* Calls of get_model_directories on a host registry *)

MaxDirectoryCalls == 2

DirCheckpoints == <<"/","m">>          \* "/m", registered for checkpoints
DirExtra       == <<"/","x">>          \* "/x"
DirRelative    == <<"r">>              \* "r", which is "/w/r"
DirBase        == <<"/","b">>          \* "/b", the base_path of the yaml file
DirectoryDisk  == { DirCheckpoints, DirExtra, DirBase, <<"/","b","/","r">> }

\* the host registry before any call, as its categories' lists of paths
HostRegistry == [checkpoints |-> <<DirCheckpoints>>]

ExtraPathsPool ==
    { [callable |-> FALSE, items |-> <<>>] } \cup
    { [callable |-> TRUE, items |-> items] : items \in
        { <<>>,
          << <<"checkpoints", <<DirCheckpoints>>>> >>,
          << <<"checkpoints", <<DirExtra>>>> >>,
          << <<"loras", <<DirRelative>>>> >>,
          << <<"vae", <<DirBase>>>> >>,
          << <<"loras", <<DirExtra>>>>, <<"checkpoints", <<DirRelative, DirExtra>>>> >> } }

ConfigPool ==
    { [present |-> FALSE, base_path |-> <<>>, category |-> "", path |-> <<>>],
      [present |-> TRUE, base_path |-> DirBase, category |-> "checkpoints",
       path |-> DirRelative],
      [present |-> TRUE, base_path |-> DirBase, category |-> "vae", path |-> DirExtra],
      [present |-> TRUE, base_path |-> DirBase, category |-> "checkpoints",
       path |-> <<"g","o","n","e">>] }

InitDirectories ==
    /\ pc = "directories"
    /\ list_objects = <<HostRegistry.checkpoints>>
    /\ folder_names_and_paths = [checkpoints |-> [paths |-> 1, extensions |-> {".pt"}]]
    /\ model_directories = << >>
    /\ directory_calls = 0
    /\ NormIdle /\ SimIdle /\ TokIdle /\ MatchIdle /\ WfIdle
    /\ AnalyzerIdle /\ CallerIdle /\ ScannerIdle
    /\ MergeIdle /\ ConfigIdle /\ CacheIdle /\ DownloadIdle /\ RegisterIdle /\ ProbeIdle

\* lines 25-120: a call
GetModelDirectories ==
    /\ pc = "directories"
    /\ directory_calls < MaxDirectoryCalls
    /\ \E yaml_importable \in BOOLEAN, extra_paths \in ExtraPathsPool,
          config \in ConfigPool :
          LET call == get_model_directories(folder_names_and_paths, list_objects,
                          yaml_importable, extra_paths, config, DirectoryDisk,
                          WorkingDirectory)
          IN  /\ list_objects' = call.objects
              /\ model_directories' = call.directories
    /\ directory_calls' = directory_calls + 1
    /\ UNCHANGED <<pc, folder_names_and_paths>>
    /\ UNCHANGED <<mergeVars, configVars, cacheVars, downloadVars, registerVars, probeVars,
                   normVars, simVars, tokVars, matchVars, wfVars,
                   analyzerVars, callerVars, scannerVars>>

NextDirectories == GetModelDirectories

SpecDirectories == InitDirectories /\ [][NextDirectories]_vars

---------------------------------------------------------------------------
(* Properties of the scoring functions.                                    *)

\* C5: calculate_similarity_with_normalization(a, b) is exactly 1.0 if and
\* only if normalize_filename(a) = normalize_filename(b), in particular for
\* a = b; when the normalized forms differ, the blend
\* 0.7 * token_similarity + 0.3 * char_similarity is strictly below 1.0.
C5_OneIffNormalizedEqual ==
    pc = "blend_done" =>
        /\ (final_sim = One) <=> (normalize_filename(str1) = normalize_filename(str2))
        /\ (str1 = str2) => (final_sim = One)
        /\ (normalize_filename(str1) # normalize_filename(str2)) =>
              /\ final_sim = FAdd(FMul(calculate_token_similarity(tokenize_model_name(str1),
                                                                   tokenize_model_name(str2)),
                                       TokenWeight),
                                  FMul(char_sim, CharWeight))
              /\ FLt(final_sim, One)

\* C5 witness: the token lists are equal (token score 1.0) while the
\* normalized names differ, and the blend stays below 1.0.
C5_Witness ==
    /\ pc = "blend_done"
    /\ normalize_filename(str1) # normalize_filename(str2)
    /\ tokenize_model_name(str1) = tokenize_model_name(str2)
    /\ tokenize_model_name(str1) # <<>>
    /\ FLt(final_sim, One)

\* C7 as stated: appending one token to both of two non-empty token lists
\* never decreases calculate_token_similarity.
C7_AppendNeverDecreases ==
    (pc = "tokens_appended" /\ Len(tokens1) >= 2 /\ Len(tokens2) >= 2)
        => FLe(prev_token_sim, token_sim)

\* C7 amended: appending one token to both of two non-empty token lists
\* never decreases calculate_token_similarity, unless the shorter list had
\* exactly two tokens (the order bonus is then spread over three positions
\* instead of two).
C7_AppendNeverDecreasesOutsideWindowGrowth ==
    (/\ pc = "tokens_appended"
     /\ Len(tokens1) >= 2 /\ Len(tokens2) >= 2
     /\ Min2(Len(tokens1), Len(tokens2)) - 1 # 2)
        => FLe(prev_token_sim, token_sim)

\* C7 witness: both lists had three tokens, shared some but not all of
\* them, and the appended token raised the score.
C7_Witness ==
    /\ pc = "tokens_appended"
    /\ Len(tokens1) = 4 /\ Len(tokens2) = 4
    /\ FLt(Zero, prev_token_sim)
    /\ FLt(prev_token_sim, token_sim)

\* C8 as stated: calculate_similarity is symmetric, lies in [0, 1] and is
\* 1.0 exactly when the two strings are identical.
C8_SymmetricRatio ==
    pc = "ratio_swapped" =>
        /\ char_sim = prev_char_sim
        /\ FLe(Zero, char_sim) /\ FLe(char_sim, One)
        /\ (char_sim = One) <=> (str1 = str2)

\* C8 amended: calculate_similarity lies in [0, 1] and is 1.0 exactly when
\* the two strings are identical, in either order of the arguments; it is
\* not symmetric (SequenceMatcher prefers the block that starts earliest in
\* its first argument).
C8_RatioRangeAndIdentity ==
    pc \in {"ratio_done", "ratio_swapped"} =>
        /\ FLe(Zero, char_sim) /\ FLe(char_sim, One)
        /\ (char_sim = One) <=> (str1 = str2)

\* C8 witness: two different strings with common characters, scored in
\* both orders.
C8_Witness ==
    /\ pc = "ratio_swapped"
    /\ str1 # str2
    /\ FLt(Zero, char_sim) /\ FLt(char_sim, One)
    /\ FLt(Zero, prev_char_sim)

\* whether os.path.splitext finds no extension in s
NoExtension(s) == splitext_root(s) = s

\* C9 as stated: for every filename f,
\* normalize_filename(normalize_filename(f)) = normalize_filename(f).
C9_NormalizeIdempotent ==
    [][passes >= 1 => normalized' = normalized]_vars

\* C9 amended: normalize_filename(normalize_filename(f)) =
\* normalize_filename(f) for every filename f whose normalized form holds no
\* further extension for os.path.splitext to strip.
C9_NormalizeIdempotentWithoutExtension ==
    [][(passes >= 1 /\ NoExtension(normalized)) => normalized' = normalized]_vars

\* C9 witness: a filename that normalization changed (extension, case and
\* separators), normalized a second time.
C9_Witness ==
    /\ passes = 2
    /\ NoExtension(normalized)
    /\ ~NoExtension(filename)
    /\ normalized # Lower(splitext_root(filename))
    /\ normalized # splitext_root(filename)

---------------------------------------------------------------------------
(* Properties of find_matches.                                             *)

TargetNorm == normalize_filename(basename(target_model))

\* whether find_matches derives a filename (a non-empty string) from c
HasFilename(c) ==
    /\ c.mapping
    /\ candidate_filename(c).exc = "none"
    /\ candidate_filename(c).value.t = "str"
    /\ candidate_filename(c).value.s # <<>>

\* the positions of the candidates whose similarity reaches the threshold
Qualifying ==
    {i \in 1..Len(candidate_models) :
        /\ HasFilename(candidate_models[i])
        /\ FLe(threshold, similarity(basename(target_model),
                                     candidate_filename(candidate_models[i]).value.s))}

Returned == {matches[k].index : k \in 1..Len(matches)}

\* C1: a result has similarity 1.0 (confidence 100.0) if and only if the
\* normalized basename of the target equals the normalized candidate
\* filename; every other result has similarity at most 0.999.
C1_ExactIffNormalizedEqual ==
    pc = "matches_done" =>
        \A k \in 1..Len(matches) :
            /\ (matches[k].similarity = One)
                  <=> (TargetNorm = normalize_filename(matches[k].filename))
            /\ (matches[k].similarity # One) => FLe(matches[k].similarity, SimilarityCap)
            /\ (matches[k].confidence = 1000) <=> (matches[k].similarity = One)

\* C1 witness: one result is exact although its filename differs from the
\* target in case, another is capped at 0.999 although the comparison of
\* the extension-less names reached 1.0.
C1_Witness ==
    /\ pc = "matches_done"
    /\ \E k \in 1..Len(matches) :
          /\ matches[k].similarity = One
          /\ matches[k].filename # basename(target_model)
    /\ \E k \in 1..Len(matches) :
          /\ matches[k].similarity = SimilarityCap
          /\ matches[k].confidence = 999
          /\ calculate_similarity_with_normalization(
                 splitext_root(basename(target_model)),
                 splitext_root(matches[k].filename)) = One

\* C2: the returned list is sorted by non-increasing similarity, and results
\* of equal similarity keep the order of their candidates in the input.
C2_SortedAndStable ==
    pc = "matches_done" =>
        \A i, j \in 1..Len(matches) :
            i < j =>
               /\ FLe(matches[j].similarity, matches[i].similarity)
               /\ (matches[i].similarity = matches[j].similarity)
                     => (matches[i].index < matches[j].index)

\* C2 witness: two different candidates with the same similarity, below 1.0.
C2_Witness ==
    /\ pc = "matches_done"
    /\ Len(matches) = 2
    /\ matches[1].similarity = matches[2].similarity
    /\ matches[1].model # matches[2].model
    /\ FLt(matches[1].similarity, SimilarityCap)

\* C3: for max_results >= 0 a returning call returns the first max_results
\* entries of the sorted list of the candidates whose similarity reaches the
\* threshold: every result reaches the threshold, the length is
\* min(max_results, number of qualifying candidates), no candidate left out
\* ranks before a returned one, with threshold 0.0 every candidate with a
\* filename qualifies, and max_results = 0 yields the empty list.
C3_ThresholdAndTruncation ==
    (pc = "matches_done" /\ raised = "none" /\ max_results >= 0) =>
        /\ \A k \in 1..Len(matches) : FLe(threshold, matches[k].similarity)
        /\ Len(matches) = Min2(max_results, Cardinality(Qualifying))
        /\ Cardinality(Returned) = Len(matches)
        /\ Returned \subseteq Qualifying
        /\ \A q \in Qualifying \ Returned : \A k \in 1..Len(matches) :
              LET sim == similarity(basename(target_model),
                                    candidate_filename(candidate_models[q]).value.s)
              IN  \/ FLt(sim, matches[k].similarity)
                  \/ (sim = matches[k].similarity /\ matches[k].index < q)
        /\ (threshold = Zero) =>
              Qualifying = {i \in 1..Len(candidate_models) : HasFilename(candidate_models[i])}
        /\ (max_results = 0) => matches = <<>>

\* C3 witness: two candidates reach a positive threshold, max_results = 1
\* keeps only the better one, which was the second in the input.
C3_Witness ==
    /\ pc = "matches_done"
    /\ raised = "none"
    /\ threshold # Zero
    /\ max_results = 1
    /\ Cardinality(Qualifying) = 2
    /\ Len(matches) = 1
    /\ matches[1].index = 2

\* C4: find_matches never raises; malformed entries are skipped and the
\* well-formed candidates are still returned.
C4_NeverRaises ==
    pc = "matches_done" =>
        /\ raised = "none"
        /\ (threshold = Zero /\ max_results >= Len(candidate_models)) =>
              Returned = {i \in 1..Len(candidate_models) :
                             candidate_models[i] \in WellFormedCandidates}

ScenarioA ==
    /\ target_model = NameSdxlBase10
    /\ candidate_models = <<Candidate(StrVal(NameSdxlBase1), Absent, Absent)>>
    /\ threshold = Zero
    /\ max_results >= 1

\* C6 as stated: target "sd_xl_base_1.0.safetensors" with the single
\* candidate "sd_xl_base_1.safetensors" scores strictly between 0.5 and 0.999.
C6_ScenarioAStrictlyBelowCap ==
    (pc = "matches_done" /\ ScenarioA) =>
        /\ Len(matches) = 1
        /\ FLt(Frac(1, 2), matches[1].similarity)
        /\ FLt(matches[1].similarity, SimilarityCap)

\* C6 amended: target "sd_xl_base_1.0.safetensors" with the single
\* candidate "sd_xl_base_1.safetensors" scores strictly above 0.5 and at most
\* 0.999; it scores exactly 0.999, the cap, because the comparison of the
\* extension-less names strips ".0" as an extension and reaches 1.0.
C6_ScenarioAAtCap ==
    (pc = "matches_done" /\ ScenarioA) =>
        /\ Len(matches) = 1
        /\ FLt(Frac(1, 2), matches[1].similarity)
        /\ matches[1].similarity = SimilarityCap

\* C6 witness: the call of the scenario has returned.
C6_Witness ==
    /\ pc = "matches_done"
    /\ ScenarioA
    /\ raised = "none"
    /\ Len(matches) = 1
    /\ matches[1].filename = NameSdxlBase1

---------------------------------------------------------------------------
(* Properties of detect_workflow_format.                                   *)

HasNodesList ==
    "nodes" \in DOMAIN workflow_json /\ workflow_json["nodes"].t = "list"

HasApiEntry ==
    \E key \in DOMAIN workflow_json :
        /\ workflow_json[key].t = "dict"
        /\ {"class_type", "inputs"} \subseteq workflow_json[key].keys

\* C10: for a document that is a mapping, the format is "graph" exactly
\* when "nodes" is a key whose value is a list, even with API-shaped entries
\* present; otherwise "api" exactly when some top-level value is a mapping
\* with both class_type and inputs; otherwise "unknown".
C10_FormatDetection ==
    pc = "detected" =>
        /\ (workflow_format = "graph") <=> HasNodesList
        /\ (workflow_format = "api") <=> (~HasNodesList /\ HasApiEntry)
        /\ (workflow_format = "unknown") <=> (~HasNodesList /\ ~HasApiEntry)

\* C10 witness: a document with a nodes list and an API-shaped entry,
\* detected as "graph".
C10_Witness ==
    /\ pc = "detected"
    /\ HasNodesList
    /\ HasApiEntry
    /\ workflow_format = "graph"

---------------------------------------------------------------------------
(* Properties of the workflow analyzer.                                    *)

AnalysisEnded    == pc \in {"analyzed", "identified"}
AnalysisReturned == AnalysisEnded /\ analyze_raised = "none"

HasNodesSequence(d) == d.t = "dict" /\ d.nodes.t = "list"

HasApiNode(d) ==
    /\ d.t = "dict"
    /\ \E i \in 1..Len(d.entries) :
          /\ d.entries[i].node.mapping
          /\ d.entries[i].node.class_type.t # "absent"
          /\ d.entries[i].node.inputs.t # "absent"

\* no dictionary; a dictionary of neither shape; a graph document whose
\* definitions or subgraphs value has the wrong type
MalformedDocument(d) ==
    \/ d.t # "dict"
    \/ ~HasNodesSequence(d) /\ ~HasApiNode(d)
    \/ /\ HasNodesSequence(d)
       /\ \/ d.definitions.t = "list"
          \/ d.definitions.t = "dict" /\ d.definitions.subgraphs.t = "int"

\* C11: for every malformed document (no mapping, a mapping of neither
\* recognized shape, a graph document whose definitions / subgraphs value
\* has the wrong type) the analysis does not raise, the format of a
\* document of no recognized shape is "unknown", and its list is empty.
C11_MalformedDocumentNeverRaises ==
    (AnalysisEnded /\ MalformedDocument(workflow_json)) =>
        /\ analyze_raised = "none"
        /\ (~HasNodesSequence(workflow_json) /\ ~HasApiNode(workflow_json)) =>
               (workflow_format = "unknown" /\ all_model_refs = <<>>)

\* the value's extension, in lower case, is a known model extension
HasKnownExtension(value) ==
    /\ value.t = "str"
    /\ \E ext \in MODEL_EXTENSIONS : splitext_ext(Lower(value.s)) = ext

Indices(n) == [i \in 1..n |-> i]

RECURSIVE Flatten(_)
Flatten(ss) == IF ss = <<>> THEN <<>> ELSE Head(ss) \o Flatten(Tail(ss))

\* where a reference was found: the node, the locator, the value, and the
\* position of the subgraph among definitions.subgraphs (0: top level)
Locator(node_id, locator, value, sub) ==
    [node_id |-> node_id, locator |-> locator, value |-> value, sub |-> sub]

Bare(locs) == [k \in 1..Len(locs) |-> [locs[k] EXCEPT !.sub = 0]]

Located(refs) ==
    [k \in 1..Len(refs) |->
        Locator(refs[k].node_id, refs[k].widget_index, refs[k].original_path, 0)]

\* a node carrying a type string (or none) and a values sequence (or none)
WellFormedGraphNode(node) ==
    node.mapping /\ node.type.t # "list" /\ node.widgets_values.t \in {"absent", "list"}

ExpectedOfGraphNode(node, sub) ==
    IF ~WellFormedGraphNode(node) THEN <<>>
    ELSE LET items == node.widgets_values.items
             hits == SelectSeq(Indices(Len(items)), LAMBDA i : HasKnownExtension(items[i]))
         IN  [k \in 1..Len(hits) |->
                 Locator(node.id, IntVal(hits[k] - 1), items[hits[k]], sub)]

ExpectedOfGraphNodes(nodes, sub) ==
    Flatten([k \in 1..Len(nodes) |-> ExpectedOfGraphNode(nodes[k], sub)])

ExpectedOfGraph(d) ==
    LET subs == d.definitions.subgraphs.items
    IN  ExpectedOfGraphNodes(d.nodes.items, 0)
        \o Flatten([s \in 1..Len(subs) |-> ExpectedOfGraphNodes(subs[s].nodes.items, s)])

\* a node carrying a type tag and an inputs mapping (or no inputs)
WellFormedApiNode(node) ==
    node.mapping /\ node.class_type.t = "str" /\ node.inputs.t \in {"absent", "dict"}

\* the field holds a string, and its name (as written, or in lower case) is
\* a known model field or ends with "_name", or the value has a known
\* model extension
QualifyingField(f, lowered) ==
    /\ f.value.t = "str"
    /\ LET name == IF lowered THEN Lower(f.name) ELSE f.name
       IN  \/ name \in MODEL_INPUT_FIELDS
           \/ EndsWith(name, SuffixName)
           \/ HasKnownExtension(f.value)

ExpectedOfApiNode(entry, lowered) ==
    IF ~WellFormedApiNode(entry.node) THEN <<>>
    ELSE LET hits == SelectSeq(entry.node.inputs.fields,
                               LAMBDA f : QualifyingField(f, lowered))
         IN  [k \in 1..Len(hits) |->
                 Locator(StrVal(entry.key), StrVal(hits[k].name), hits[k].value, 0)]

ExpectedOfApi(d, lowered) ==
    Flatten([k \in 1..Len(d.entries) |-> ExpectedOfApiNode(d.entries[k], lowered)])

\* a document of a recognized shape in which at most single nodes are
\* malformed
MalformedAtMostInNodes(d) ==
    /\ d.t = "dict"
    /\ ~MalformedDocument(d)
    /\ HasNodesSequence(d) =>
          \A s \in 1..Len(d.definitions.subgraphs.items) :
              /\ d.definitions.subgraphs.items[s].mapping
              /\ d.definitions.subgraphs.items[s].nodes.t # "int"

\* C12: when the extraction of single nodes fails (a node that is no
\* mapping, a field of the wrong type), the analysis does not raise and
\* returns the references of all the well-formed nodes, for API nodes,
\* top-level graph nodes and subgraph nodes alike.
C12_FailingNodeNeverAborts ==
    (AnalysisEnded /\ MalformedAtMostInNodes(workflow_json)) =>
        /\ analyze_raised = "none"
        /\ Located(all_model_refs) =
              IF HasNodesSequence(workflow_json)
              THEN Bare(ExpectedOfGraph(workflow_json))
              ELSE ExpectedOfApi(workflow_json, TRUE)

\* the document of Scenario C: one checkpoint loader whose ckpt_name is
\* "missing.safetensors", a file no registered directory has
ScenarioC ==
    /\ workflow_json.t = "dict"
    /\ workflow_json.nodes.t = "absent"
    /\ workflow_json.entries =
          <<Entry(<<"1">>, ApiNode(NodeType("CheckpointLoaderSimple"),
                                   Inputs(<<Field(FieldCkptName, StrVal(ValueMissing))>>)))>>
    /\ \A file \in registry_files : file[2] # ValueMissing

ScenarioCOutcome ==
    /\ Len(all_model_refs) = 1
    /\ all_model_refs[1].exists = FALSE
    /\ all_model_refs[1].category = "checkpoints"

\* C13 as stated: for an API document the returned list has exactly one
\* reference per (node, input field) whose value is a string and whose
\* field name is in the known set or ends with "_name", or whose value has
\* a known model extension, the field name being the locator, and no other
\* reference; Scenario C yields one reference with exists = false and
\* category "checkpoints".
C13_OneReferencePerQualifyingField ==
    (AnalysisReturned /\ workflow_format = "api") =>
        /\ Located(all_model_refs) = ExpectedOfApi(workflow_json, FALSE)
        /\ ScenarioC => ScenarioCOutcome

\* C13 amended: the same, with the field name compared in lower case.
C13_OneReferencePerQualifyingFieldLowered ==
    (AnalysisReturned /\ workflow_format = "api") =>
        /\ Located(all_model_refs) = ExpectedOfApi(workflow_json, TRUE)
        /\ ScenarioC => ScenarioCOutcome

\* C13 witness: a returned API analysis with a reference for a field that
\* qualifies by name, one for a field that qualifies by extension only, and
\* a string field left out.
C13_Witness ==
    /\ AnalysisReturned
    /\ workflow_format = "api"
    /\ \E k \in 1..Len(all_model_refs) :
          all_model_refs[k].widget_index = StrVal(FieldLoraName)
    /\ \E k \in 1..Len(all_model_refs) :
          all_model_refs[k].widget_index = StrVal(FieldSeed)
    /\ \A k \in 1..Len(all_model_refs) :
          all_model_refs[k].widget_index # StrVal(FieldModel)
    /\ \E i \in 1..Len(workflow_json.entries) :
          \E j \in 1..Len(workflow_json.entries[i].node.inputs.fields) :
              workflow_json.entries[i].node.inputs.fields[j] =
                  Field(FieldModel, StrVal(ValuePlain))

\* the node of Scenario D
ScenarioDNode ==
    GraphNode(IntVal(3), NodeType("KSampler"),
              Items(<<StrVal(ValueFooTxt), StrVal(ValueBarSafetensors)>>))

\* C14: for a graph document the returned list has, for each node, exactly
\* one reference per position of widgets_values whose value has a known
\* model extension (in any case), with that position as locator, and no
\* other reference; the node of Scenario D alone yields one reference, with
\* locator 1.
C14_OneReferencePerModelWidget ==
    (AnalysisReturned /\ workflow_format = "graph") =>
        /\ Located(all_model_refs) = Bare(ExpectedOfGraph(workflow_json))
        /\ (workflow_json.nodes.items = <<ScenarioDNode>>
            /\ workflow_json.definitions.t = "absent") =>
               /\ Len(all_model_refs) = 1
               /\ all_model_refs[1].widget_index = IntVal(1)
               /\ all_model_refs[1].original_path = StrVal(ValueBarSafetensors)

\* C14 witness: a returned graph analysis with two nodes, a reference for
\* "A.CKPT" at position 0 and one for "bar.safetensors" at position 1.
C14_Witness ==
    /\ AnalysisReturned
    /\ workflow_format = "graph"
    /\ Len(workflow_json.nodes.items) = 2
    /\ \E k \in 1..Len(all_model_refs) :
          /\ all_model_refs[k].original_path = StrVal(ValueUpperCkpt)
          /\ all_model_refs[k].widget_index = IntVal(0)
    /\ \E k \in 1..Len(all_model_refs) :
          /\ all_model_refs[k].original_path = StrVal(ValueBarSafetensors)
          /\ all_model_refs[k].widget_index = IntVal(1)

\* the subgraph a returned reference comes from (0: a top-level node)
Owner(k) == ExpectedOfGraph(workflow_json)[k].sub

Populated(v) == v.t \notin {"absent", "nokey"}

\* C15 as stated: every reference from a subgraph node carries
\* is_top_level = false, a populated subgraph_id and a subgraph_name;
\* every reference from a top-level node carries none of the three.
C15_SubgraphReferencesMarked ==
    (AnalysisReturned /\ workflow_format = "graph") =>
        \A k \in 1..Len(all_model_refs) :
            IF Owner(k) = 0
            THEN /\ all_model_refs[k].is_top_level = NoKey
                 /\ all_model_refs[k].subgraph_id = NoKey
                 /\ all_model_refs[k].subgraph_name = NoKey
            ELSE /\ all_model_refs[k].is_top_level = BoolVal(FALSE)
                 /\ Populated(all_model_refs[k].subgraph_id)
                 /\ all_model_refs[k].subgraph_name # NoKey

\* C15 amended: every reference from a subgraph node carries is_top_level =
\* false, the id of its subgraph as subgraph_id (None when the subgraph has
\* no id) and the subgraph's name, or else its id, as subgraph_name; every
\* reference from a top-level node carries none of the three.
C15_SubgraphReferencesMarkedWithId ==
    (AnalysisReturned /\ workflow_format = "graph") =>
        \A k \in 1..Len(all_model_refs) :
            IF Owner(k) = 0
            THEN /\ all_model_refs[k].is_top_level = NoKey
                 /\ all_model_refs[k].subgraph_id = NoKey
                 /\ all_model_refs[k].subgraph_name = NoKey
            ELSE LET subgraph == workflow_json.definitions.subgraphs.items[Owner(k)]
                 IN  /\ all_model_refs[k].is_top_level = BoolVal(FALSE)
                     /\ all_model_refs[k].subgraph_id = subgraph.id
                     /\ all_model_refs[k].subgraph_name =
                           IF subgraph.name # NoKey THEN subgraph.name ELSE subgraph.id

\* C15 witness: a returned graph analysis with a top-level reference and a
\* reference from a named subgraph.
C15_Witness ==
    /\ AnalysisReturned
    /\ workflow_format = "graph"
    /\ \E k \in 1..Len(all_model_refs) : all_model_refs[k].is_top_level = NoKey
    /\ \E k \in 1..Len(all_model_refs) :
          /\ all_model_refs[k].is_top_level = BoolVal(FALSE)
          /\ all_model_refs[k].subgraph_id = StrVal(<<"s","1">>)
          /\ all_model_refs[k].subgraph_name = StrVal(<<"S","u","b">>)

\* the categories a reference's resolution may probe: the hint of its node
\* type alone, or else the registered categories, without the two that
\* hold no models
CandidateCategories(ref) ==
    LET hinted == ref.node_type.name \in DOMAIN NODE_TYPE_TO_CATEGORY_HINTS
        all == IF hinted THEN <<NODE_TYPE_TO_CATEGORY_HINTS[ref.node_type.name]>>
               ELSE FolderNames
    IN  SelectSeq(all, LAMBDA c : c \notin {"custom_nodes", "configs"})

\* the file lies in a registered directory of the category
FileIn(c, value) ==
    <<c, strip(value.s)>> \in registry_files /\ \E i \in 1..Len(FolderNames) : FolderNames[i] = c

\* C16: the resolution probes the candidate categories in order (the hinted
\* category alone when the node type has a hint, otherwise the registered
\* ones) and never "custom_nodes" or "configs"; the first category in which
\* the file exists gives category and resolved path; when none matches,
\* category is the hint (or "unknown"), the path is null and exists false.
C16_FirstMatchingCategoryWins ==
    AnalysisReturned =>
        \A k \in 1..Len(all_model_refs) :
            LET ref == all_model_refs[k]
                cands == CandidateCategories(ref)
                hits == {i \in 1..Len(cands) : FileIn(cands[i], ref.original_path)}
            IN  /\ \A i \in 1..Len(ref.probed) :
                       ref.probed[i] \notin {"custom_nodes", "configs"}
                /\ Len(ref.probed) <= Len(cands)
                /\ ref.probed = SubSeq(cands, 1, Len(ref.probed))
                /\ IF hits # {}
                   THEN LET first == CHOOSE i \in hits : \A j \in hits : i <= j
                        IN  /\ ref.category = cands[first]
                            /\ ref.full_path = FullPath(cands[first], strip(ref.original_path.s))
                            /\ ref.exists = TRUE
                            /\ Len(ref.probed) = first
                   ELSE /\ ref.category =
                              IF ref.node_type.name \in DOMAIN NODE_TYPE_TO_CATEGORY_HINTS
                              THEN NODE_TYPE_TO_CATEGORY_HINTS[ref.node_type.name]
                              ELSE "unknown"
                        /\ ref.full_path = NoPath
                        /\ ref.exists = FALSE

\* C16 witness: "a.pt" lies in custom_nodes, checkpoints and loras; a node
\* without a hint resolves it in checkpoints after one probe, and a LoRA
\* loader resolves it in loras.
C16_Witness ==
    /\ AnalysisReturned
    /\ registry_files = FilePool
    /\ \E k \in 1..Len(all_model_refs) :
          /\ all_model_refs[k].node_type = NodeType("")
          /\ all_model_refs[k].category = "checkpoints"
          /\ all_model_refs[k].probed = <<"checkpoints">>
    /\ \E k \in 1..Len(all_model_refs) :
          /\ all_model_refs[k].node_type = NodeType("LoraLoader")
          /\ all_model_refs[k].category = "loras"
          /\ all_model_refs[k].exists

\* the positions of the references that do not exist
MissingPositions == {k \in 1..Len(workflow_models) : workflow_models[k].exists = FALSE}

\* C17: identify_missing_models returns exactly the references whose exists
\* is false, in input order, and the list it was given is as it was.
C17_MissingAreTheNonExisting ==
    pc = "identified" =>
        /\ workflow_models = all_model_refs
        /\ Len(missing) = Cardinality(MissingPositions)
        /\ \A j \in 1..Len(missing) :
              missing[j] = workflow_models[CHOOSE k \in MissingPositions :
                                 Cardinality({m \in MissingPositions : m <= k}) = j]

\* C17 witness: a list with an existing reference between two missing ones,
\* of which the two missing ones are returned.
C17_Witness ==
    /\ pc = "identified"
    /\ Len(missing) = 2
    /\ \E k \in 2..(Len(workflow_models) - 1) :
          /\ workflow_models[k].exists
          /\ ~workflow_models[k - 1].exists
          /\ ~workflow_models[k + 1].exists

\* what the call of caller c returns when it runs alone against the same
\* registry: its outcome and, when it returns, its list
Alone(c) ==
    analyze_workflow_models(callers[c].document,
                            Registry(importable, FolderNames, registry_files))

\* C19: each of the interleaved calls ends as it would alone: with the same
\* exception or, when it returns, the same reference list.
C19_InterleavedCallsAsAlone ==
    \A c \in DOMAIN callers :
        callers[c].pc = "done" =>
            /\ callers[c].raised = Alone(c).raised
            /\ callers[c].raised = "none" => callers[c].refs = Alone(c).refs

\* C19 witness: both calls are done; both found the handle unset, both
\* imported the module and assigned it, and both resolved "a.pt".
C19_Witness ==
    /\ pc = "concurrent"
    /\ \A c \in DOMAIN callers :
          /\ callers[c].pc = "done"
          /\ callers[c].fp = "module"
          /\ \E k \in 1..Len(callers[c].refs) : callers[c].refs[k].exists

---------------------------------------------------------------------------
(* Properties of the directory scanner.                                    *)

\* C18: within one scan pass no two records have the same absolute path,
\* also when a directory is registered under several categories or listed
\* as an additional directory as well.
C18_AbsolutePathsUnique ==
    pc = "scanned" =>
        \A i, j \in 1..Len(all_models) :
            all_models[i].path = all_models[j].path => i = j

\* what a scan of all the configured directories yields
ScannedModels ==
    scan_all_directories({}, FileSystem, directories, additional_dirs).models

\* C20: get_model_files returns, for either value of use_cache, the list
\* the scan of all configured directories yields, without raising; and the
\* refresh handler's scan completes and yields that list.
C20_GetModelFilesReturnsScan ==
    /\ pc = "got_model_files" => (scan_raised = "none" /\ all_models = ScannedModels)
    /\ pc = "refreshed" =>
          (response.success /\ response.models_found = Len(ScannedModels))

---------------------------------------------------------------------------
(* Properties of the model cache.                                          *)

\* the record has a path: a non-empty string
HasPath(m) == m.path.t = "str" /\ m.path.s # <<>>

AbsolutePath(m) == abspath(m.path.s, WorkingDirectory)

\* the cached models the merge is to append: those with a path that is not
\* among the scanned paths and that still exists
Appendable(m) ==
    /\ HasPath(m)
    /\ \A k \in 1..Len(scanned_models) :
          HasPath(scanned_models[k]) =>
              AbsolutePath(scanned_models[k]) # AbsolutePath(m)
    /\ AbsolutePath(m) \in Disk

\* C21: the list merge_models_with_cache returns has no two entries with
\* the same absolute path; the scanned models come first, in their order,
\* and a cached model follows only if it has a path that is not among the
\* scanned paths and that still exists.
C21_MergedDeduplicatedByPath ==
    pc = "merged" =>
        /\ merge_raised = "none"
        /\ \A i, j \in 1..Len(merged) :
              (HasPath(merged[i]) /\ HasPath(merged[j])
               /\ AbsolutePath(merged[i]) = AbsolutePath(merged[j])) => i = j
        /\ Len(merged) >= Len(scanned_models)
        /\ SubSeq(merged, 1, Len(scanned_models)) = scanned_models
        /\ \A k \in (Len(scanned_models) + 1)..Len(merged) : Appendable(merged[k])

---------------------------------------------------------------------------
(* Properties of the configuration loader.                                 *)

\* the file holds a mapping whose cache and scanning sections, where
\* given, are mappings
WellFormedConfigFile ==
    /\ config_file.t = "dict"
    /\ \A section \in {"cache", "scanning"} \cap DOMAIN config_file.items :
          config_file.items[section].t = "dict"

\* C22: the configuration load_config returns is the deep merge of the
\* defaults and the user file: in the cache and scanning sections every
\* default key the user file does not set has its default value, and every
\* key the user file sets has the user's value.
C22_DefaultsDeepMerged ==
    (pc = "loaded" /\ WellFormedConfigFile) =>
        \A section \in {"cache", "scanning"} :
            LET user == IF section \in DOMAIN config_file.items
                        THEN config_file.items[section].items ELSE << >>
                result == configuration[section].items
            IN  /\ \A k \in DOMAIN defaults[section].items \ DOMAIN user :
                       k \in DOMAIN result /\ result[k] = defaults[section].items[k]
                /\ \A k \in DOMAIN user :
                       k \in DOMAIN result /\ result[k] = user[k]

\* the complete documents: that of an earlier save and those of the savers
CompleteDocuments == {CacheDocument(w) : w \in 0..MaxSavers}

\* C23: under any interleaving of save_cache and load_cache calls the
\* cache file holds one complete saved document, load_cache returns such a
\* document (or the default cache when there is no file yet), never data
\* of a partially written file, and a save that fails returns False and
\* leaves the cache file as it was.
C23_CacheFileAlwaysComplete ==
    /\ cache_files.cache_path # 0 =>
          cache_files.inodes[cache_files.cache_path] \in CompleteDocuments
    /\ loaded \in CompleteDocuments \cup {<<>>}
    /\ \A s \in 1..MaxSavers :
          (savers[s].pc = "done" /\ ~savers[s].serializable) =>
              savers[s].returned = "False"

---------------------------------------------------------------------------
(* Properties of the download handlers.                                    *)

\* the chunks of the whole download of task t
WholeDownload(t) == [k \in 1..tasks[t].transfer.sends |-> <<t, k>>]

\* C24: a download never leaves a partial file under the final name: a
\* destination file exists only as the work of a task that wrote all its
\* chunks to the temporary file and found downloaded = total_size (or
\* total_size = 0), and it holds that download; a task that ended by
\* cancellation, HTTP error, incomplete transfer or another exception did
\* not create the destination and left no temporary file.
C24_NoPartialFileUnderFinalName ==
    /\ \A name \in DownloadNames :
          download_dir.names[<<name, "dest">>] # 0 =>
              \E t \in 1..Len(tasks) :
                  /\ tasks[t].filename = name
                  /\ tasks[t].outcome = "completed"
                  /\ tasks[t].downloaded = tasks[t].total_size \/ tasks[t].total_size = 0
                  /\ download_dir.inodes[download_dir.names[<<name, "dest">>]] = WholeDownload(t)
    /\ \A t \in 1..Len(tasks) :
          tasks[t].outcome \in {"failed", "cancelled"} => ~tasks[t].temp_left

\* C25: a cancel request for a download id that is in active_downloads
\* marks the download as cancelled, cancels its task and answers success;
\* the answer is 404 only when the id is not an active download.
C25_CancelReachesActiveDownload ==
    last_response.handler = "cancel_download" =>
        /\ last_response.active =>
              /\ last_response.status = 200
              /\ last_response.cancelled
              /\ last_response.task_cancelled
        /\ last_response.status = 404 => ~last_response.active

\* how often route k is in the router
TimesAdded(k) == Cardinality({i \in 1..Len(router_routes) : router_routes[i] = k})

\* C26: route registration happens at most once and the retry loop is
\* bounded: each route is added to the router at most once, also when
\* attempts fail part-way; a call made when _routes_registered is true
\* returns True and adds nothing; delayed_registration ends after the first
\* successful registration or after at most 30 attempts.
C26_RoutesAddedAtMostOnce ==
    /\ \A k \in 1..NumRoutes : TimesAdded(k) <= 1
    /\ (last_call.called /\ last_call.registered_before) =>
           (last_call.returned /\ last_call.added = 0)
    /\ attempt <= max_attempts
    /\ (pc = "thread" /\ attempt > 0) => ~routes_registered
    /\ (pc = "finished" /\ attempt > 0) => (routes_registered \/ attempt = max_attempts)

\* C27: for every reference, exists is true exactly when full_path is not
\* null, and category is "unknown" only when the path is null, also when
\* files are created or deleted between the probe and the second existence
\* check.
C27_ExistsIffPathResolved ==
    \A i \in 1..Len(references) :
        /\ references[i].exists <=> references[i].full_path # NoPath
        /\ references[i].category = "unknown" => references[i].full_path = NoPath

---------------------------------------------------------------------------
(* Properties of get_model_directories.                                    *)

\* C28: get_model_directories leaves the host registry
\* folder_paths.folder_names_and_paths as it was: the extra paths are only
\* in the mapping it returns.
C28_HostRegistryUnchanged ==
    /\ DOMAIN folder_names_and_paths = DOMAIN HostRegistry
    /\ \A category \in DOMAIN folder_names_and_paths :
          list_objects[folder_names_and_paths[category].paths] = HostRegistry[category]
===========================================================================
